---- MODULE Spec2Model ----
(***************************************************************************)
(* Plugin installation and lifecycle pipeline of Picard:                   *)
(*   picard/plugin3/installer.py, picard/plugin3/manager.py and the        *)
(*   installation dialog picard/ui/plugins_manager/                        *)
(*   plugin_installation_dialog.py.                                        *)
(*                                                                         *)
(* The dialog runs on the UI thread.  An installation runs on one          *)
(* background worker that talks to the UI thread only through queued       *)
(* slot invocations (Qt QueuedConnection), modelled by the FIFO `queue`.   *)
(* Widgets that only display (progress bar, feedback labels, the list      *)
(* view of installed plugins) carry no state here.                         *)
(***************************************************************************)
EXTENDS Integers, Sequences, FiniteSets, TLC

(***************************************************************************)
(* Bounds of the model                                                     *)
(***************************************************************************)
MaxRows == 2          \* URL rows the user opens (never more than max_urls)
MaxCandidates == 2    \* plugin packages found in one source
MaxInputs == 3        \* user input events handled by the dialog
MaxApiLen == 3        \* length of an API version tuple in CompatSpec

(***************************************************************************)
(* Program constants and input sets                                        *)
(***************************************************************************)
max_urls == 5

PluginNames == {"p1", "p2"}
Versions == {"2.9", "3.0", "4.0"}
api_versions_tuple == <<"3.0">>

\* A text is a sequence of tokens: a token is a punctuation character
\* (":", "/", "@", " "), a run of digits, or a run of other characters.
Url(repo) == <<"https", ":", "/", "/", "host", "/", "user", "/", repo>>

\* Texts the user types into a URL row, and into the directory input
UrlTexts ==
    {<<>>, Url("r1"), Url("r2"), <<" ">> \o Url("r1"),
     <<"git", "@", "host", ":", "user", "/", "r1">>}
LocalDirTexts == {<<>>, <<"/", "d1">>}

ToSet(s) == {s[i] : i \in DOMAIN s}

SeqsUpTo(S, n) == UNION {[1..k -> S] : k \in 0..n}

Min(a, b) == IF a < b THEN a ELSE b

(***************************************************************************)
(* Manifests.  PluginManifest(name, fp) either parses (and then has a      *)
(* tuple of API versions) or raises; its callers expect OSError,           *)
(* ValueError and KeyError.                                                *)
(***************************************************************************)
ManifestParseErrors == {"ValueError", "KeyError"}

OkManifest(api) == [parse |-> "ok", api |-> api]
BadManifest(e) == [parse |-> e, api |-> <<>>]

Manifests ==
    {OkManifest(<<"2.9", "3.0">>), OkManifest(<<"2.9">>)}
        \cup {BadManifest(e) : e \in ManifestParseErrors}

\* What `open(manifest_path)` and `PluginManifest(name, fp)` give for a
\* candidate: a manifest, a parse error, or OSError from the open
ManifestReads == Manifests \cup {BadManifest("OSError")}

\* PluginDiscovery.discover: the directories below the root with __init__.py
\* and MANIFEST.toml, by directory name (rglob: any depth, so a name may
\* repeat)
CandidateLists == SeqsUpTo(PluginNames, MaxCandidates)

(***************************************************************************)
(* PluginDiscovery.discover on a directory tree.  A path is the sequence   *)
(* of names below the root; <<>> is the root itself.                       *)
(***************************************************************************)
DvPaths == {<<>>, <<"a">>, <<"a", "c">>, <<"b">>}

\* An entry of the tree: nothing, a plain file, or a directory with or
\* without the files __init__.py and MANIFEST.toml
NoEntry == [kind |-> "absent", init |-> FALSE, manifest |-> FALSE]
FileEntry == [kind |-> "file", init |-> FALSE, manifest |-> FALSE]
DirEntries == [kind : {"dir"}, init : BOOLEAN, manifest : BOOLEAN]

Parent(p) == SubSeq(p, 1, Len(p) - 1)

\* The trees: the root is a directory, and an entry exists only in a
\* directory
DvTrees ==
    {t \in [DvPaths -> {NoEntry, FileEntry} \cup DirEntries] :
        /\ t[<<>>].kind = "dir"
        /\ \A p \in DvPaths \ {<<>>} :
              t[p].kind # "absent" => t[Parent(p)].kind = "dir"}

\* repo_root.rglob("*"): every entry below the root, the root excluded
Rglob == << <<"a">>, <<"a", "c">>, <<"b">> >>

\* Mutant: a directory with one of the two files is a candidate
discover_either(t) ==
    SelectSeq(Rglob, LAMBDA entry :
        /\ t[entry].kind = "dir"
        /\ t[entry].init \/ t[entry].manifest)

\* installer.py: PluginDiscovery.discover
discover(t) ==
    SelectSeq(Rglob, LAMBDA entry :
        /\ t[entry].kind = "dir"
        /\ t[entry].init
        /\ t[entry].manifest)

(***************************************************************************)
(* API compatibility.  A Python value that is None or a tuple of versions. *)
(***************************************************************************)
PyNone == [none |-> TRUE, items |-> <<>>]
PyTuple(t) == [none |-> FALSE, items |-> t]

\* Python truthiness of None / a tuple
Truthy(v) == ~v.none /\ v.items # <<>>

\* Mutant: compatible only when every declared version is supported
compatible_api_versions_subset(api_versions) ==
    IF ToSet(api_versions.items) \subseteq ToSet(api_versions_tuple)
    THEN ToSet(api_versions.items)
    ELSE {}

\* manager.py: _compatible_api_versions
compatible_api_versions(api_versions) ==
    ToSet(api_versions.items) \cap ToSet(api_versions_tuple)

\* manager.py: _is_plugin_compatible
is_plugin_compatible(plugin_api_versions) ==
    IF ~Truthy(plugin_api_versions)
    THEN FALSE
    ELSE Cardinality(compatible_api_versions(plugin_api_versions)) > 0

\* Mutant: the installer accepts every plugin that declares a version
is_compatible_declared(api_versions) == Truthy(api_versions)

\* installer.py: PluginValidator._is_compatible
is_compatible(api_versions) ==
    IF ~Truthy(api_versions)
    THEN FALSE
    ELSE (ToSet(api_versions.items) \cap ToSet(api_versions_tuple)) # {}

(***************************************************************************)
(* Texts and URL validation                                                *)
(***************************************************************************)
Digits == {"0", "443", "8080"}

RECURSIVE LStrip(_)
LStrip(t) == IF t # <<>> /\ Head(t) = " " THEN LStrip(Tail(t)) ELSE t

RECURSIVE RStrip(_)
RStrip(t) ==
    IF t # <<>> /\ t[Len(t)] = " " THEN RStrip(SubSeq(t, 1, Len(t) - 1)) ELSE t

\* str.strip()
Strip(t) == RStrip(LStrip(t))

Positions(t, c) == {i \in DOMAIN t : t[i] = c}

\* [^:/]+(?::\d+)?  on a text without "/"
HostPortMatch(h) ==
    LET colons == Positions(h, ":") IN
    \/ h # <<>> /\ colons = {}
    \/ /\ Cardinality(colons) = 1
       /\ LET c == CHOOSE i \in colons : TRUE IN
          /\ c >= 2
          /\ c < Len(h)
          /\ \A i \in (c + 1)..Len(h) : h[i] \in Digits

\* (?:[^@/]+@)?[^:/]+(?::\d+)?  on a text without "/"
AuthorityMatch(a) ==
    \/ HostPortMatch(a)
    \/ /\ Positions(a, "@") # {}
       /\ LET at == CHOOSE i \in Positions(a, "@") :
                        \A j \in Positions(a, "@") : i <= j
          IN at >= 2 /\ HostPortMatch(SubSeq(a, at + 1, Len(a)))

\* Mutant: any scheme followed by "://" will do
git_url_pattern_match_any_scheme(url) ==
    LET n == Len(url)
        slashes == {i \in 5..n : url[i] = "/"}
    IN
    /\ n >= 5
    /\ url[2] = ":" /\ url[3] = "/" /\ url[4] = "/"
    /\ Cardinality(slashes) \in {2, 3}
    /\ LET p == CHOOSE i \in slashes : \A j \in slashes : i <= j
           q == CHOOSE i \in slashes \ {p} : \A j \in slashes \ {p} : i <= j
       IN
       /\ AuthorityMatch(SubSeq(url, 5, p - 1))
       /\ q > p + 1
       /\ q < n
       /\ slashes \ {p, q} \subseteq {n}
       /\ (n \in slashes) => q < n - 1

\* re: ^https?://(?:[^@/]+@)?(?:[^:/]+)(?::\d+)?/[^/]+/[^/]+(?:\.git)?/?$
git_url_pattern_match(url) ==
    LET n == Len(url)
        slashes == {i \in 5..n : url[i] = "/"}
    IN
    /\ n >= 5
    /\ url[1] \in {"http", "https"}
    /\ url[2] = ":" /\ url[3] = "/" /\ url[4] = "/"
    /\ Cardinality(slashes) \in {2, 3}
    /\ LET p == CHOOSE i \in slashes : \A j \in slashes : i <= j
           q == CHOOSE i \in slashes \ {p} : \A j \in slashes \ {p} : i <= j
       IN
       /\ AuthorityMatch(SubSeq(url, 5, p - 1))
       /\ q > p + 1
       /\ q < n
       /\ slashes \ {p, q} \subseteq {n}
       /\ (n \in slashes) => q < n - 1

\* urlparse(url): scheme and netloc both non-empty
urlparse_ok(url) ==
    /\ Len(url) >= 5
    /\ url[1] \notin {":", "/", "@", " "} \cup Digits
    /\ url[2] = ":" /\ url[3] = "/" /\ url[4] = "/"
    /\ url[5] # "/"

\* validation.py: UrlValidator.is_valid_git_url
UrlValidator_is_valid_git_url(url) ==
    IF url = <<>> THEN FALSE
    ELSE IF ~urlparse_ok(url) THEN FALSE
    ELSE git_url_pattern_match(url)

\* plugin_installation_dialog.py: _is_valid_git_url
is_valid_git_url(url) ==
    IF url = <<>> THEN FALSE
    ELSE IF ~urlparse_ok(url) THEN FALSE
    ELSE git_url_pattern_match(url)

RECURSIVE Unique(_, _)
Unique(s, seen) ==
    IF s = <<>> THEN <<>>
    ELSE IF Head(s) \in seen THEN Unique(Tail(s), seen)
    ELSE <<Head(s)>> \o Unique(Tail(s), seen \cup {Head(s)})

\* Mutant: every valid row is kept, repeated or not
collect_valid_urls_repeated(inputs) ==
    LET texts == [i \in DOMAIN inputs |-> Strip(inputs[i])]
        non_empty == SelectSeq(texts, LAMBDA t : t # <<>>)
    IN SelectSeq(non_empty, is_valid_git_url)

\* plugin_installation_dialog.py: _collect_valid_urls
collect_valid_urls(inputs) ==
    LET texts == [i \in DOMAIN inputs |-> Strip(inputs[i])]
        non_empty == SelectSeq(texts, LAMBDA t : t # <<>>)
        valid == SelectSeq(non_empty, is_valid_git_url)
    IN Unique(valid, {})

(***************************************************************************)
(* State                                                                   *)
(***************************************************************************)
VARIABLES
    \* --- dialog (UI thread) ---
    current_method,             \* "git" or "local"
    url_inputs,                 \* texts of the URL rows
    local_dir_input,            \* text of the local directory input
    discovered_local_plugins,   \* names found by the last local validation
    install_enabled,            \* install_button.isEnabled()
    error_visible,              \* error_label shown
    error_text,                 \* error_label text after "Installation failed: "
    progress_label,             \* progress_label text
    close_enabled,              \* close_button.isEnabled()
    \* --- plugin manager and configuration ---
    plugins,                    \* PluginManager._plugins
    enabled_plugins,            \* config.setting['enabled_plugins']
    \* --- file system: the user's plugin folder ---
    plugin_folder,
    \* --- queued slot invocations, worker -> UI thread ---
    queue,
    \* --- the installation worker ---
    w_pc, w_mode, w_urls, w_i, w_seen, w_url,
    w_candidates, w_validated, w_k, w_msgs,
    success_count, error_count,
    w_failures, w_completes, w_last_posted, w_copied, w_reported,
    \* --- inputs and results of the compatibility checks (CompatSpec) ---
    cv_input, cv_manager, cv_installer,
    \* --- input and result of PluginDiscovery.discover (DiscoverSpec) ---
    dv_tree, dv_result,
    \* --- PluginManager calls (ManagerSpec) ---
    mg_dir,                     \* the directory given to add_directory
    mg_call,                    \* the last call made and how it ended
    \* --- input and results of is_valid_git_url (UrlSpec) ---
    uv_url, uv_result,
    \* --- GitInstallTab: repository preview (PreviewSpec) ---
    git_tab,
    \* --- InstallCoordinator.install (CoordinatorSpec) ---
    coordinator,
    \* --- RepositoryUrlInputs (UrlRowsSpec) ---
    url_rows,
    \* --- PluginListManager (ListSpec) ---
    list_manager,
    \* --- WindowsNowPlayingService (NowPlayingSpec) ---
    now_playing,
    \* --- environment ---
    n_inputs                    \* user input events handled so far

ui_vars == <<current_method, url_inputs, local_dir_input,
             discovered_local_plugins, install_enabled, error_visible,
             error_text, progress_label, close_enabled>>
pm_vars == <<plugins, enabled_plugins>>
loop_vars == <<w_mode, w_urls, w_i, w_seen, w_url, success_count, error_count>>
step_vars == <<w_candidates, w_validated, w_k, w_msgs>>
ghost_vars == <<w_failures, w_completes, w_last_posted, w_copied, w_reported>>
cv_vars == <<cv_input, cv_manager, cv_installer>>
dv_vars == <<dv_tree, dv_result>>
mg_vars == <<mg_dir, mg_call>>
uv_vars == <<uv_url, uv_result>>
\* The objects of the other user interface components
ext_vars == <<git_tab, coordinator, url_rows, list_manager, now_playing>>
fn_vars == <<cv_vars, dv_vars, mg_vars, uv_vars, ext_vars>>

vars == <<ui_vars, pm_vars, plugin_folder, queue, w_pc, loop_vars, step_vars,
          ghost_vars, fn_vars, n_inputs>>

\* The dialog, the worker and the plugin manager
main_vars == <<ui_vars, pm_vars, plugin_folder, queue, w_pc, loop_vars,
               step_vars, ghost_vars, n_inputs>>

(***************************************************************************)
(* Exceptions                                                              *)
(***************************************************************************)
\* installer.py: PluginInstallationError and its subclasses
PluginInstallationError ==
    {"RepositoryCloneError", "ManifestValidationError", "PluginCopyError"}

\* plugin_installation_dialog.py: the outer handler of the git worker
WorkerHandled == {"OSError", "ValueError", "RuntimeError", "ImportError"}

(***************************************************************************)
(* PluginValidator.validate                                                *)
(***************************************************************************)
\* Outcome of validate(candidate) when reading its manifest gives `read`:
\* <<"ok", name>>, or <<exception class, cause>>.  Only OSError is wrapped.
validate(candidate, read) ==
    IF read.parse = "OSError"
    THEN <<"ManifestValidationError", "unreadable">>
    ELSE IF read.parse # "ok"
    THEN <<read.parse, "manifest">>
    ELSE IF ~is_compatible(PyTuple(read.api))
    THEN <<"ManifestValidationError", "incompatible">>
    ELSE <<"ok", candidate>>

(***************************************************************************)
(* The plugin folder and the plugin manager                                *)
(***************************************************************************)
\* A plugin directory of the plugin folder: its manifest and whether all of
\* its files are there
Tree(manifest) == [complete |-> TRUE, manifest |-> manifest]
PartialTree(manifest) == [complete |-> FALSE, manifest |-> manifest]
PriorTree == Tree(OkManifest(<<"3.0">>))
\* No directory of that name in the plugin folder
Absent == [complete |-> FALSE, manifest |-> BadManifest("absent")]

IsComplete(folder, name) ==
    folder[name] # Absent /\ folder[name].complete

\* A Plugin object of the registry: its manifest's API versions are those
\* read_manifest found; `module` is whether `_module` is set.
Plugin(name, manifest) == [name |-> name, module |-> FALSE, api |-> manifest.api]

Registered(reg, name) == \E i \in DOMAIN reg : reg[i].name = name

\* Mutant: a readable manifest is enough, whatever its API versions
load_plugin_any(folder, name, readable) ==
    /\ folder[name] # Absent
    /\ folder[name].complete \/ readable
    /\ folder[name].manifest.parse = "ok"

\* manager.py: _load_plugin.  TRUE when a Plugin is returned.  `readable`
\* is whether read_manifest finds the manifest of an incomplete tree.
load_plugin(folder, name, readable) ==
    /\ folder[name] # Absent
    /\ folder[name].complete \/ readable
    /\ folder[name].manifest.parse = "ok"
    /\ is_plugin_compatible(PyTuple(folder[name].manifest.api))

\* Mutant: enabling does not add the name to the setting
set_plugin_enabled_noappend(enabled_list, plugin_name, enabled) ==
    IF enabled
    THEN enabled_list
    ELSE SelectSeq(enabled_list, LAMBDA n : n # plugin_name)

\* Mutant: enabling appends without looking for the name first
set_plugin_enabled_unchecked(enabled_list, plugin_name, enabled) ==
    IF enabled
    THEN Append(enabled_list, plugin_name)
    ELSE SelectSeq(enabled_list, LAMBDA n : n # plugin_name)

\* list.remove(x): the list without the first occurrence of x
ListRemove(list, x) ==
    LET first == CHOOSE i \in DOMAIN list :
                    list[i] = x /\ \A j \in 1..(i - 1) : list[j] # x
    IN [k \in 1..(Len(list) - 1) |-> IF k < first THEN list[k] ELSE list[k + 1]]

\* manager.py: set_plugin_enabled
set_plugin_enabled(enabled_list, plugin_name, enabled) ==
    IF enabled
    THEN IF plugin_name \notin ToSet(enabled_list)
         THEN Append(enabled_list, plugin_name)
         ELSE enabled_list
    ELSE IF plugin_name \in ToSet(enabled_list)
         THEN ListRemove(enabled_list, plugin_name)
         ELSE enabled_list

(***************************************************************************)
(* Initial state: the dialog as constructed, after the plugin manager has  *)
(* registered the plugin folder (add_directory) and initialised the        *)
(* enabled plugins (init_plugins).                                         *)
(***************************************************************************)
InitUi ==
    /\ current_method = "git"
    /\ url_inputs = << <<>> >>
    /\ local_dir_input = <<>>
    /\ discovered_local_plugins = <<>>
    /\ install_enabled = FALSE
    /\ error_visible = FALSE
    /\ error_text = ""
    /\ progress_label = ""
    /\ close_enabled = TRUE

InitWorker ==
    /\ queue = <<>>
    /\ w_pc = "idle"
    /\ w_mode = "git"
    /\ w_urls = <<>>
    /\ w_i = 1
    /\ w_seen = {}
    /\ w_url = <<>>
    /\ w_candidates = <<>>
    /\ w_validated = <<>>
    /\ w_k = 0
    /\ w_msgs = <<>>
    /\ success_count = 0
    /\ error_count = 0
    /\ w_failures = {}
    /\ w_completes = 0
    /\ w_last_posted = ""
    /\ w_copied = {}
    /\ w_reported = {}

InitCv ==
    /\ cv_input = PyNone
    /\ cv_manager = "unset"
    /\ cv_installer = "unset"

InitDv ==
    /\ dv_tree = [p \in DvPaths |-> IF p = <<>> THEN [kind |-> "dir",
                                   init |-> FALSE, manifest |-> FALSE]
                                   ELSE NoEntry]
    /\ dv_result = [done |-> FALSE, found |-> <<>>]

\* p1 was installed, registered and enabled before; p2 was never installed
\* An entry below the directory add_directory scans: nothing, a plain file,
\* or a directory with what read_manifest gives for it (a missing
\* MANIFEST.toml is an OSError).
NoDirEntry == [kind |-> "absent", read |-> BadManifest("absent")]
PlainFile == [kind |-> "file", read |-> BadManifest("absent")]
SubDirs == [kind : {"dir"}, read : ManifestReads]
\* Paths below the scanned directory: two entries and one entry of "p1"
MgPaths == {<<"p1">>, <<"p2">>, <<"p1", "n1">>}
MgDirs ==
    {d \in [MgPaths -> {NoDirEntry, PlainFile} \cup SubDirs] :
        /\ d[<<"p1", "n1">>].kind # "absent" => d[<<"p1">>].kind = "dir"
        /\ d[<<"p1", "n1">>].kind = "dir" => d[<<"p1", "n1">>].read = OkManifest(<<"2.9", "3.0">>)}

\* No call of the manager yet
NoCall == [n |-> 0, op |-> "none", name |-> "none", enabled |-> FALSE,
           failures |-> {}, raised |-> "none", before |-> <<>>, loads |-> {},
           calls |-> <<>>]

\* What plugin_info_text shows: nothing, the analysing notice, or the
\* result of the preview run with that token
NoText == [kind |-> "empty", token |-> 0]

\* GitInstallTab as constructed: no preview started, nothing displayed
InitGitTab ==
    git_tab = [preview_token |-> 0, plugin_info_text |-> NoText,
               urls |-> <<>>, runs |-> {}, discarded |-> {},
               cleared |-> FALSE]

\* InstallCoordinator.install not called yet
InitCoordinator == coordinator = [done |-> FALSE]

\* DialogConfig.MAX_URLS
MAX_URLS == 5

\* RepositoryUrlInputs.__init__: one empty row, the + button positioned
InitUrlRows ==
    url_rows = [url_inputs |-> <<<<>>>>, add_button_enabled |-> 1 < MAX_URLS,
                feedback_error |-> FALSE, last |-> "init"]

\* No call of the list manager made yet
NoListCall == [op |-> "none", name |-> "none", raised |-> "none", rmtree |-> "none"]

\* PluginListManager.__init__: an empty model, nothing disabled or selected
InitListManager ==
    list_manager = [items |-> {}, disabled |-> {}, selected |-> "none",
                    last |-> NoListCall]

\* WindowsNowPlayingService as constructed
\* The signals of the Player the service connects to
PlayerSignals ==
    {"playback_state_changed", "seeked", "duration_changed",
     "playback_rate_changed", "media_changed"}

\* WindowsNowPlayingService.__init__, with a stopped player
InitNowPlaying ==
    now_playing = [enabled |-> FALSE, smtc |-> FALSE, smtc_is_enabled |-> FALSE,
                   smtc_status |-> "none", smtc_display |-> "none",
                   smtc_rate |-> 0, btn_handlers |-> 0,
                   media_player |-> "none",
                   connected |-> [sig \in PlayerSignals |-> 0],
                   playback_state |-> "STOPPED", current_file |-> "none",
                   playback_rate |-> 1, last |-> "init"]

InitExt ==
    /\ InitGitTab /\ InitCoordinator /\ InitUrlRows /\ InitListManager
    /\ InitNowPlaying

\* is_valid_git_url not called yet
InitUv ==
    /\ uv_url = <<>>
    /\ uv_result = [done |-> FALSE, validator |-> FALSE, dialog |-> FALSE]

\* No manager call made yet; nothing to scan
InitMg ==
    /\ mg_dir = [p \in MgPaths |-> NoDirEntry]
    /\ mg_call = NoCall

InitPlugins ==
    /\ plugin_folder = [n \in PluginNames |->
                           IF n = "p1" THEN PriorTree ELSE Absent]
    /\ plugins = <<[Plugin("p1", PriorTree.manifest) EXCEPT !.module = TRUE]>>
    /\ enabled_plugins = <<"p1">>

Init ==
    /\ n_inputs = 0
    /\ InitUi /\ InitWorker /\ InitPlugins
    /\ InitCv /\ InitDv /\ InitMg /\ InitUv /\ InitExt

(***************************************************************************)
(* Dialog: input handlers (UI thread)                                      *)
(***************************************************************************)
\* One more user input event handled by the dialog
UserEvent ==
    /\ n_inputs < MaxInputs
    /\ n_inputs' = n_inputs + 1

\* Mutant: on the Git tab one invalid row keeps Install disabled
install_button_state_all_rows(method, inputs, discovered) ==
    IF method = "git"
    THEN /\ Len(collect_valid_urls(inputs)) > 0
         /\ \A i \in DOMAIN inputs :
               Strip(inputs[i]) # <<>> => is_valid_git_url(Strip(inputs[i]))
    ELSE discovered # <<>>

\* _update_install_button_state
install_button_state(method, inputs, discovered) ==
    IF method = "git"
    THEN Len(collect_valid_urls(inputs)) > 0
    ELSE discovered # <<>>

\* _validate_urls: _reset_progress_ui, feedback, _update_install_button_state
validate_urls(inputs) ==
    /\ url_inputs' = inputs
    /\ progress_label' = ""
    /\ error_visible' = FALSE
    /\ install_enabled' =
           install_button_state(current_method, inputs, discovered_local_plugins)
    /\ UNCHANGED <<current_method, local_dir_input, discovered_local_plugins,
                   error_text, close_enabled>>

\* textChanged of URL row i
EditUrl ==
    /\ UserEvent
    /\ current_method = "git"
    /\ \E i \in DOMAIN url_inputs, t \in UrlTexts :
          /\ t # url_inputs[i]
          /\ validate_urls([url_inputs EXCEPT ![i] = t])
    /\ UNCHANGED <<pm_vars, plugin_folder, queue, w_pc, loop_vars, step_vars,
                   ghost_vars, fn_vars>>

\* _on_add_url_clicked (the + button is disabled at max_urls rows)
on_add_url_clicked ==
    /\ UserEvent
    /\ current_method = "git"
    /\ Len(url_inputs) < Min(max_urls, MaxRows)
    /\ validate_urls(Append(url_inputs, <<>>))
    /\ UNCHANGED <<pm_vars, plugin_folder, queue, w_pc, loop_vars, step_vars,
                   ghost_vars, fn_vars>>

\* _on_tab_changed
on_tab_changed ==
    /\ UserEvent
    /\ current_method' = IF current_method = "git" THEN "local" ELSE "git"
    /\ progress_label' = ""
    /\ error_visible' = FALSE
    /\ install_enabled' =
           install_button_state(current_method', url_inputs,
                                discovered_local_plugins)
    /\ UNCHANGED <<url_inputs, local_dir_input, discovered_local_plugins,
                   error_text, close_enabled>>
    /\ UNCHANGED <<pm_vars, plugin_folder, queue, w_pc, loop_vars, step_vars,
                   ghost_vars, fn_vars>>

\* The valid plugin names _validate_local_directory finds among candidates;
\* "raise" when a manifest fails to parse (neither ManifestValidationError
\* nor OSError, so the handler is left at that point).
RECURSIVE local_valid(_, _)
local_valid(cands, reads) ==
    IF cands = <<>> THEN <<>>
    ELSE LET rest == local_valid(Tail(cands), Tail(reads))
             v == validate(Head(cands), Head(reads))
         IN IF v[1] = "ok"
            THEN <<Head(cands)>> \o rest
            ELSE rest

local_raises(cands, reads) ==
    \E i \in DOMAIN cands :
        validate(cands[i], reads[i])[1] \notin {"ok", "ManifestValidationError"}

\* _validate_local_directory, on textChanged of the directory input
validate_local_directory ==
    /\ UserEvent
    /\ current_method = "local"
    /\ \E t \in LocalDirTexts :
          /\ t # local_dir_input
          /\ local_dir_input' = t
          /\ progress_label' = ""
          /\ error_visible' = FALSE
          /\ IF Strip(t) = <<>>
             THEN /\ discovered_local_plugins' = <<>>
                  /\ install_enabled' = FALSE
             ELSE \E cands \in CandidateLists :
                  \E reads \in [DOMAIN cands -> ManifestReads] :
                    IF local_raises(cands, reads)
                    THEN /\ discovered_local_plugins' = discovered_local_plugins
                         /\ install_enabled' = FALSE
                    ELSE /\ discovered_local_plugins' = local_valid(cands, reads)
                         /\ install_enabled' =
                              install_button_state(current_method, url_inputs,
                                                   discovered_local_plugins')
    /\ UNCHANGED <<current_method, url_inputs, error_text, close_enabled>>
    /\ UNCHANGED <<pm_vars, plugin_folder, queue, w_pc, loop_vars, step_vars,
                   ghost_vars, fn_vars>>

(***************************************************************************)
(* Queued slot invocations                                                 *)
(***************************************************************************)
Note(slot, arg, names, ok, err) ==
    [slot |-> slot, arg |-> arg, names |-> names, ok |-> ok, err |-> err]

update_progress_note(message) == Note("update_progress", message, {}, 0, 0)
enable_note(name) == Note("enable_plugin_by_name", name, {}, 0, 0)
success_note(source, names) == Note("installation_success", source, names, 0, 0)
failed_note(message) == Note("installation_failed", message, {}, 0, 0)
refresh_note == Note("refresh_plugins_list", "", {}, 0, 0)
complete_note(ok, err) == Note("installation_complete", "", {}, ok, err)

ProgressNotes(msgs) == [i \in DOMAIN msgs |-> update_progress_note(msgs[i])]

\* QMetaObject.invokeMethod(..., QueuedConnection, ...) for each of `notes`
Post(notes) ==
    /\ queue' = queue \o notes
    /\ w_last_posted' =
          IF notes = <<>> THEN w_last_posted ELSE notes[Len(notes)].slot
    /\ w_completes' =
          w_completes
            + Cardinality({i \in DOMAIN notes :
                              notes[i].slot = "installation_complete"})

\* Name of an installation source: the repository or directory name
SourceId(text) == IF text = <<>> THEN "" ELSE text[Len(text)]

Names(validated) == [i \in DOMAIN validated |-> validated[i].name]

(***************************************************************************)
(* Dialog: _start_installation (clicked signal of the enabled Install      *)
(* button).  The model follows one invocation: the handler starts the      *)
(* first worker the dialog starts.                                         *)
(***************************************************************************)
WorkerRunning == w_pc \notin {"idle", "done"}

start_worker(mode, urls, pc) ==
    /\ w_pc' = pc
    /\ w_mode' = mode
    /\ w_urls' = urls
    /\ w_i' = 1
    /\ w_seen' = {}
    /\ w_url' = IF mode = "local" THEN urls[1] ELSE <<>>
    /\ success_count' = 0
    /\ error_count' = 0
    /\ w_candidates' = <<>>
    /\ w_validated' = <<>>
    /\ w_k' = 0
    /\ w_msgs' = <<>>
    /\ w_failures' = {}
    /\ w_completes' = 0
    /\ w_last_posted' = ""
    /\ w_copied' = {}
    /\ w_reported' = {}

\* Mutant: starting an installation disables Close as well
install_from_git_async_no_close ==
    /\ install_enabled
    /\ w_pc = "idle"
    /\ current_method = "git"
    /\ LET urls == collect_valid_urls(url_inputs) IN
       /\ urls # <<>>
       /\ error_visible' = FALSE
       /\ progress_label' = "Starting installation"
       /\ install_enabled' = FALSE
       /\ close_enabled' = FALSE
       /\ start_worker("git", urls, "loop")
    /\ UNCHANGED <<current_method, url_inputs, local_dir_input,
                   discovered_local_plugins, error_text>>
    /\ UNCHANGED <<pm_vars, plugin_folder, queue, fn_vars, n_inputs>>

\* _start_installation -> _install_from_git_async -> _install_plugins_async
install_from_git_async ==
    /\ install_enabled
    /\ w_pc = "idle"
    /\ current_method = "git"
    /\ LET urls == collect_valid_urls(url_inputs) IN
       /\ urls # <<>>
       /\ error_visible' = FALSE
       /\ progress_label' = "Starting installation"
       /\ install_enabled' = FALSE
       /\ start_worker("git", urls, "loop")
    /\ UNCHANGED <<current_method, url_inputs, local_dir_input,
                   discovered_local_plugins, error_text, close_enabled>>
    /\ UNCHANGED <<pm_vars, plugin_folder, queue, fn_vars, n_inputs>>

\* _start_installation -> _install_from_local_async
install_from_local_async ==
    /\ install_enabled
    /\ w_pc = "idle"
    /\ current_method = "local"
    /\ LET directory_path == Strip(local_dir_input) IN
       /\ directory_path # <<>>
       /\ error_visible' = FALSE
       /\ progress_label' = "Installing plugin from local directory"
       /\ install_enabled' = FALSE
       /\ start_worker("local", <<directory_path>>, "discover")
    /\ UNCHANGED <<current_method, url_inputs, local_dir_input,
                   discovered_local_plugins, error_text, close_enabled>>
    /\ UNCHANGED <<pm_vars, plugin_folder, queue, fn_vars, n_inputs>>

(***************************************************************************)
(* The installation worker                                                 *)
(***************************************************************************)
ResetStep ==
    /\ w_candidates' = <<>>
    /\ w_validated' = <<>>
    /\ w_k' = 0
    /\ w_msgs' = <<>>

\* What the worker does with an exception of class `kind` raised while
\* installing one source:
\*   git:   except PluginInstallationError -> "continue" with the next URL;
\*          except (OSError, ValueError, RuntimeError, ImportError) around
\*          the whole loop -> "abort" with a failure message;
\*          anything else leaves the worker -> "escape".
\*   local: except Exception -> "abort" with a failure message.
on_exception(mode, kind) ==
    IF mode = "local" THEN "abort"
    ELSE IF kind \in PluginInstallationError THEN "continue"
    ELSE IF kind \in WorkerHandled THEN "abort"
    ELSE "escape"

\* An exception leaves the current step of install_from_git (or of the
\* local worker) after the progress messages `msgs` were sent.
raises(kind, cause, msgs) ==
    LET how == on_exception(w_mode, kind)
        shown == how # "escape"
    IN
    /\ Post(ProgressNotes(msgs)
              \o (IF shown THEN <<failed_note(cause)>> ELSE <<>>))
    /\ w_failures' = w_failures \cup
          {[source |-> SourceId(w_url), cause |-> cause, kind |-> kind,
            shown |-> shown, planned |-> Names(w_validated), copied |-> w_k]}
    /\ error_count' = IF how = "continue" THEN error_count + 1 ELSE error_count
    /\ w_i' = IF how = "continue" THEN w_i + 1 ELSE w_i
    /\ w_pc' = IF how = "continue" THEN "loop" ELSE "done"
    /\ ResetStep
    /\ UNCHANGED <<w_mode, w_urls, w_seen, w_url, success_count,
                   w_copied, w_reported>>

\* _install_plugins_async.install_worker: head of `for url in urls`, and
\* the two invocations after the loop
worker_loop ==
    /\ w_pc = "loop"
    /\ IF w_i > Len(w_urls)
       THEN /\ Post(<<refresh_note, complete_note(success_count, error_count)>>)
            /\ w_pc' = "done"
            /\ UNCHANGED <<w_i, w_seen, w_url>>
       ELSE /\ IF w_urls[w_i] \in w_seen
               THEN /\ w_i' = w_i + 1
                    /\ w_pc' = "loop"
                    /\ UNCHANGED <<w_seen, w_url>>
               ELSE /\ w_seen' = w_seen \cup {w_urls[w_i]}
                    /\ w_url' = w_urls[w_i]
                    /\ w_pc' = "fetch"
                    /\ UNCHANGED w_i
            /\ UNCHANGED <<queue, w_last_posted, w_completes>>
    /\ UNCHANGED <<w_mode, w_urls, success_count, error_count, step_vars,
                   w_failures, w_copied, w_reported>>
    /\ UNCHANGED <<ui_vars, pm_vars, plugin_folder, fn_vars, n_inputs>>

\* install_from_git: TemporaryDirectory(), notify("Cloning ..."),
\* fetcher.fetch
FetchOutcomes == {"ok", "tmpdir OSError", "clone error"}

install_fetch ==
    /\ w_pc = "fetch"
    /\ \E outcome \in FetchOutcomes :
         CASE outcome = "tmpdir OSError" ->
                raises("OSError", "tmpdir", <<>>)
           [] outcome = "clone error" ->
                raises("RepositoryCloneError", "clone", <<"Cloning">>)
           [] OTHER ->
                /\ Post(ProgressNotes(<<"Cloning">>))
                /\ w_msgs' = Append(w_msgs, "Cloning")
                /\ w_pc' = "discover"
                /\ UNCHANGED <<loop_vars, w_candidates, w_validated, w_k,
                               w_failures, w_copied, w_reported>>
    /\ UNCHANGED <<ui_vars, pm_vars, plugin_folder, fn_vars, n_inputs>>

\* install_from_git: notify("Scanning ..."), discovery.discover,
\* notify("Validating ...").  The local worker does the same on a directory.
install_discover ==
    /\ w_pc = "discover"
    /\ \E cands \in CandidateLists :
         IF cands = <<>>
         THEN raises("ManifestValidationError", "no plugins", <<"Scanning">>)
         ELSE /\ Post(ProgressNotes(<<"Scanning", "Validating">>))
              /\ w_msgs' = w_msgs \o <<"Scanning", "Validating">>
              /\ w_candidates' = cands
              /\ w_pc' = "validate"
              /\ UNCHANGED <<loop_vars, w_validated, w_k, w_failures,
                             w_copied, w_reported>>
    /\ UNCHANGED <<ui_vars, pm_vars, plugin_folder, fn_vars, n_inputs>>

\* Mutant: each candidate is copied as soon as it is validated
after_validate_eager(j, n) == "copy"

\* Where install_from_git goes after validating candidate j of n: the copy
\* plans are built only after the validation loop has ended.
after_validate(j, n) == IF j = n THEN "copy" ELSE "validate"

\* install_from_git: one round of `for candidate in candidates`, and
\* notify("Installing ...") after the last
install_validate ==
    /\ w_pc = "validate"
    /\ LET j == Len(w_validated) + 1 IN
       \E read \in ManifestReads :
         LET v == validate(w_candidates[j], read) IN
         IF v[1] = "ok"
         THEN /\ w_validated' =
                    Append(w_validated, [name |-> v[2], manifest |-> read])
              /\ w_pc' = after_validate(j, Len(w_candidates))
              /\ IF w_pc' = "copy"
                 THEN /\ Post(ProgressNotes(<<"Installing">>))
                      /\ w_msgs' = Append(w_msgs, "Installing")
                 ELSE /\ UNCHANGED <<queue, w_last_posted, w_completes>>
                      /\ UNCHANGED w_msgs
              /\ UNCHANGED <<loop_vars, w_candidates, w_k, w_failures,
                             w_copied, w_reported>>
         ELSE raises(v[1], v[2], <<>>)
    /\ UNCHANGED <<ui_vars, pm_vars, plugin_folder, fn_vars, n_inputs>>

(***************************************************************************)
(* PluginCopier.copy: `for plan in plans: self._copy_one(plan)`            *)
(***************************************************************************)
CopyTarget == w_validated[w_k + 1].name

CopyOutcomes == {"ok", "OSError"}

\* _copy_one: `if plan.target.exists(): shutil.rmtree(plan.target)`.
\* A failing rmtree has removed nothing or a part of the tree.
copy_rmtree ==
    /\ w_pc = "copy"
    /\ plugin_folder[CopyTarget] # Absent
    /\ \E outcome \in CopyOutcomes :
         IF outcome = "ok"
         THEN /\ plugin_folder' = [plugin_folder EXCEPT ![CopyTarget] = Absent]
              /\ w_pc' = "copytree"
              /\ UNCHANGED <<loop_vars, step_vars, ghost_vars, queue>>
         ELSE /\ \E left \in {plugin_folder[CopyTarget],
                              [plugin_folder[CopyTarget]
                                  EXCEPT !.complete = FALSE]} :
                    plugin_folder' = [plugin_folder EXCEPT ![CopyTarget] = left]
              /\ raises("PluginCopyError", "copy", <<>>)
    /\ UNCHANGED <<ui_vars, pm_vars, fn_vars, n_inputs>>

\* _copy_one has copied plan w_k + 1: copy() goes on with the next plan
plan_copied ==
    /\ plugin_folder' =
          [plugin_folder EXCEPT
              ![CopyTarget] = Tree(w_validated[w_k + 1].manifest)]
    /\ w_k' = w_k + 1
    /\ w_copied' = w_copied \cup {<<SourceId(w_url), w_k + 1, CopyTarget>>}
    /\ w_pc' = IF w_k + 1 = Len(w_validated) THEN "return" ELSE "copy"
    /\ UNCHANGED <<loop_vars, w_candidates, w_validated, w_msgs, w_failures,
                   w_completes, w_last_posted, w_reported, queue>>

\* Mutant: a plan whose copy fails is skipped and copy() goes on
copy_copytree_skipping ==
    /\ \/ w_pc = "copytree"
       \/ w_pc = "copy" /\ plugin_folder[CopyTarget] = Absent
    /\ \E outcome \in CopyOutcomes :
         IF outcome = "ok"
         THEN plan_copied
         ELSE /\ plugin_folder' = [plugin_folder EXCEPT ![CopyTarget] = Absent]
              /\ w_failures' = w_failures \cup
                    {[source |-> SourceId(w_url), cause |-> "copy",
                      kind |-> "PluginCopyError", shown |-> FALSE,
                      planned |-> Names(w_validated), copied |-> w_k]}
              /\ w_k' = w_k + 1
              /\ w_pc' = IF w_k + 1 = Len(w_validated) THEN "return" ELSE "copy"
              /\ UNCHANGED <<loop_vars, w_candidates, w_validated, w_msgs,
                             w_completes, w_last_posted, w_copied, w_reported,
                             queue>>
    /\ UNCHANGED <<ui_vars, pm_vars, fn_vars, n_inputs>>

\* _copy_one: shutil.copytree(plan.source, plan.target, ...).  A failing
\* copytree has created nothing or a part of the tree.  A PluginCopyError
\* leaves copy() and install_from_git.
copy_copytree ==
    /\ \/ w_pc = "copytree"
       \/ w_pc = "copy" /\ plugin_folder[CopyTarget] = Absent
    /\ \E outcome \in CopyOutcomes :
         IF outcome = "ok"
         THEN plan_copied
         ELSE /\ \E left \in {Absent,
                              PartialTree(w_validated[w_k + 1].manifest)} :
                    plugin_folder' = [plugin_folder EXCEPT ![CopyTarget] = left]
              /\ raises("PluginCopyError", "copy", <<>>)
    /\ UNCHANGED <<ui_vars, pm_vars, fn_vars, n_inputs>>

\* install_from_git returns the installed names; the worker counts them and
\* queues _enable_plugin_by_name for each and _installation_success.  The
\* local worker queues the same and then _refresh_plugins_list, and ends.
install_return ==
    /\ w_pc = "return"
    /\ LET installed_names == Names(w_validated)
           src == SourceId(w_url)
           notes == [i \in DOMAIN installed_names |->
                        enable_note(installed_names[i])]
                      \o <<success_note(src, ToSet(installed_names))>>
       IN
       /\ w_reported' = w_reported \cup
              {<<src, installed_names[i]>> : i \in DOMAIN installed_names}
       /\ IF w_mode = "git"
          THEN /\ Post(notes)
               /\ success_count' = success_count + Len(installed_names)
               /\ w_i' = w_i + 1
               /\ w_pc' = "loop"
          ELSE /\ Post(notes \o <<refresh_note>>)
               /\ w_pc' = "done"
               /\ UNCHANGED <<success_count, w_i>>
    /\ ResetStep
    /\ UNCHANGED <<w_mode, w_urls, w_seen, w_url, error_count, w_failures,
                   w_copied>>
    /\ UNCHANGED <<ui_vars, pm_vars, plugin_folder, fn_vars, n_inputs>>

(***************************************************************************)
(* Dialog: slots run by the UI thread for the queued invocations           *)
(***************************************************************************)
NextSlot == IF queue = <<>> THEN "" ELSE Head(queue).slot

\* _update_progress
update_progress ==
    /\ NextSlot = "update_progress"
    /\ progress_label' = Head(queue).arg
    /\ queue' = Tail(queue)
    /\ UNCHANGED <<current_method, url_inputs, local_dir_input,
                   discovered_local_plugins, install_enabled, error_visible,
                   error_text, close_enabled>>
    /\ UNCHANGED <<pm_vars, plugin_folder, w_pc, loop_vars, step_vars,
                   ghost_vars, fn_vars, n_inputs>>

\* manager.py: enable_plugin, after set_plugin_enabled: load_module and
\* enable for every registered plugin of that name that is not loaded;
\* loaded[i] tells whether loading entry i succeeds.
enable_plugin(reg, plugin_name, loaded) ==
    [i \in DOMAIN reg |->
        IF reg[i].name = plugin_name /\ ~reg[i].module
        THEN [reg[i] EXCEPT !.module = loaded[i]]
        ELSE reg[i]]

\* _enable_plugin_by_name
enable_plugin_by_name ==
    /\ NextSlot = "enable_plugin_by_name"
    /\ LET plugin_name == Head(queue).arg
           known == Registered(plugins, plugin_name)
           partial == /\ plugin_folder[plugin_name] # Absent
                      /\ ~plugin_folder[plugin_name].complete
       IN
       \E readable \in (IF partial /\ ~known THEN BOOLEAN ELSE {TRUE}) :
          LET reg == IF ~known /\ load_plugin(plugin_folder, plugin_name, readable)
                     THEN Append(plugins, Plugin(plugin_name,
                                                 plugin_folder[plugin_name].manifest))
                     ELSE plugins
          IN
          /\ enabled_plugins' = set_plugin_enabled(enabled_plugins, plugin_name, TRUE)
          /\ \E loaded \in [DOMAIN reg -> BOOLEAN] :
                plugins' = enable_plugin(reg, plugin_name, loaded)
    /\ queue' = Tail(queue)
    /\ UNCHANGED <<ui_vars, plugin_folder, w_pc, loop_vars, step_vars,
                   ghost_vars, fn_vars, n_inputs>>

\* _installation_success
installation_success ==
    /\ NextSlot = "installation_success"
    /\ progress_label' = "Plugin installed successfully!"
    /\ install_enabled' = FALSE
    /\ queue' = Tail(queue)
    /\ UNCHANGED <<current_method, url_inputs, local_dir_input,
                   discovered_local_plugins, error_visible, error_text, close_enabled>>
    /\ UNCHANGED <<pm_vars, plugin_folder, w_pc, loop_vars, step_vars,
                   ghost_vars, fn_vars, n_inputs>>

\* _installation_failed
installation_failed ==
    /\ NextSlot = "installation_failed"
    /\ progress_label' = ""
    /\ error_text' = Head(queue).arg
    /\ error_visible' = TRUE
    /\ install_enabled' =
          install_button_state(current_method, url_inputs,
                               discovered_local_plugins)
    /\ queue' = Tail(queue)
    /\ UNCHANGED <<current_method, url_inputs, local_dir_input,
                   discovered_local_plugins, close_enabled>>
    /\ UNCHANGED <<pm_vars, plugin_folder, w_pc, loop_vars, step_vars,
                   ghost_vars, fn_vars, n_inputs>>

\* _refresh_plugins_list: reloads the list view of installed plugins
refresh_plugins_list ==
    /\ NextSlot = "refresh_plugins_list"
    /\ queue' = Tail(queue)
    /\ UNCHANGED <<ui_vars, pm_vars, plugin_folder, w_pc, loop_vars,
                   step_vars, ghost_vars, fn_vars, n_inputs>>

\* _installation_complete
installation_complete ==
    /\ NextSlot = "installation_complete"
    /\ progress_label' = "Completed"
    /\ install_enabled' = FALSE
    /\ queue' = Tail(queue)
    /\ UNCHANGED <<current_method, url_inputs, local_dir_input,
                   discovered_local_plugins, error_visible, error_text, close_enabled>>
    /\ UNCHANGED <<pm_vars, plugin_folder, w_pc, loop_vars, step_vars,
                   ghost_vars, fn_vars, n_inputs>>

(***************************************************************************)
(* Specification of the dialog, the worker and the plugin manager          *)
(***************************************************************************)
UserInput ==
    \/ EditUrl
    \/ on_add_url_clicked
    \/ on_tab_changed
    \/ validate_local_directory
    \/ install_from_git_async
    \/ install_from_local_async

Worker ==
    \/ worker_loop
    \/ install_fetch
    \/ install_discover
    \/ install_validate
    \/ copy_rmtree
    \/ copy_copytree
    \/ install_return

UiDispatch ==
    \/ update_progress
    \/ enable_plugin_by_name
    \/ installation_success
    \/ installation_failed
    \/ refresh_plugins_list
    \/ installation_complete

Next == UserInput \/ Worker \/ UiDispatch

Spec == Init /\ [][Next]_vars

(***************************************************************************)
(* The UI thread runs its event loop: a queued invocation is eventually    *)
(* delivered.                                                              *)
(***************************************************************************)
LiveSpec == Spec /\ WF_vars(UiDispatch)

(***************************************************************************)
(* The two compatibility checks as functions of the declared API versions  *)
(***************************************************************************)
CvInputs == {PyNone} \cup {PyTuple(t) : t \in SeqsUpTo(Versions, MaxApiLen)}

PyBool(b) == IF b THEN "True" ELSE "False"

CompatInit ==
    /\ n_inputs = 0
    /\ InitUi /\ InitWorker /\ InitPlugins /\ InitDv /\ InitMg /\ InitUv /\ InitExt
    /\ cv_input \in CvInputs
    /\ cv_manager = "unset"
    /\ cv_installer = "unset"

\* manager.py: _is_plugin_compatible(cv_input)
check_manager ==
    /\ cv_manager = "unset"
    /\ cv_manager' = PyBool(is_plugin_compatible(cv_input))
    /\ UNCHANGED <<ui_vars, pm_vars, plugin_folder, queue, w_pc, loop_vars,
                   step_vars, ghost_vars, cv_input, cv_installer, dv_vars, mg_vars, uv_vars, ext_vars,
                   n_inputs>>

\* installer.py: PluginValidator._is_compatible(cv_input)
check_installer ==
    /\ cv_installer = "unset"
    /\ cv_installer' = PyBool(is_compatible(cv_input))
    /\ UNCHANGED <<ui_vars, pm_vars, plugin_folder, queue, w_pc, loop_vars,
                   step_vars, ghost_vars, cv_input, cv_manager, dv_vars, mg_vars, uv_vars, ext_vars,
                   n_inputs>>

CompatNext == check_manager \/ check_installer

CompatSpec == CompatInit /\ [][CompatNext]_vars

(***************************************************************************)
(* Properties                                                              *)
(***************************************************************************)
IsPrefix(a, b) == Len(a) <= Len(b) /\ a = SubSeq(b, 1, Len(a))

CopyFailures == {f \in w_failures : f.cause = "copy"}

\* C1: when several repository URLs are requested in one invocation, every
\* distinct requested URL is attempted before the worker ends, whatever way
\* an earlier one failed.
C1_EverySourceAttempted ==
    (w_mode = "git" /\ w_pc = "done") => ToSet(w_urls) \subseteq w_seen

\* C2: from the start of the installation worker until it has finished all
\* its sources the Install button stays disabled, whatever the user edits
\* and whichever queued notifications are delivered.
C2_InstallDisabledWhileBusy == WorkerRunning => ~install_enabled

\* C3: each of the two compatibility checks accepts the declared API
\* versions exactly when their set meets the host's supported set; an empty
\* tuple and None are rejected.
C3_CompatibleIffIntersects ==
    LET declared == IF cv_input.none THEN {} ELSE ToSet(cv_input.items)
        expected == PyBool(declared \cap ToSet(api_versions_tuple) # {})
    IN  /\ cv_manager # "unset" => cv_manager = expected
        /\ cv_installer # "unset" => cv_installer = expected

C3_Witness ==
    /\ cv_input = PyTuple(<<"2.9", "3.0">>)
    /\ cv_manager = "True"
    /\ cv_installer = "True"

\* C4 as stated: a copy failure aborts only the failing plugin; each other
\* validated plugin of the source is still copied and reported as installed.
C4_OtherPluginsStillInstalled ==
    \A f \in CopyFailures :
        \A i \in DOMAIN f.planned :
            i # f.copied + 1 =>
                /\ <<f.source, i, f.planned[i]>> \in w_copied
                /\ <<f.source, f.planned[i]>> \in w_reported

\* C4: a copy failure while installing one plugin of a source fails the
\* whole source with PluginCopyError: no plan after the failing one is
\* copied and no plugin of the source is reported as installed (the plans
\* copied before the failure stay in the plugin folder).
C4_CopyFailureFailsSource ==
    \A f \in CopyFailures :
        /\ f.kind = "PluginCopyError"
        /\ \A c \in w_copied : c[1] = f.source => c[2] <= f.copied
        /\ \A r \in w_reported : r[1] # f.source

C4_Witness ==
    \E f \in CopyFailures :
        /\ Len(f.planned) = 2
        /\ f.planned[1] # f.planned[2]
        /\ f.copied = 0
        /\ w_pc = "done"

\* C5: a plugin directory that held a complete installation before the
\* invocation holds a complete tree (the prior or the new one) in every
\* reachable state, also after a failed copy.
PriorInstalled == {n \in PluginNames : n = "p1"}

C5_OverwriteAtomic ==
    \A n \in PriorInstalled : IsComplete(plugin_folder, n)

\* C6: every plugin name an installation returned is eventually contained
\* in the enabled_plugins setting.
C6_InstalledEventuallyEnabled ==
    \A n \in PluginNames :
        (\E r \in w_reported : r[2] = n) ~> (n \in ToSet(enabled_plugins))

C6_Witness ==
    /\ \E r \in w_reported : r[2] = "p2"
    /\ "p2" \in ToSet(enabled_plugins)

\* C7: a clone failure, a manifest parse failure and an incompatible-API
\* failure are three distinct error kinds of the installer, and each one is
\* shown to the user as an "Installation failed: ..." message.
C7_ThreeDistinctKinds ==
    LET kinds == {"clone", "manifest", "incompatible"} IN
    \A f \in w_failures : f.cause \in kinds =>
        /\ f.shown
        /\ f.kind \in PluginInstallationError
        /\ \A g \in w_failures :
              (g.cause \in kinds /\ g.cause # f.cause) => g.kind # f.kind

\* C8: for one source the progress messages are sent in the order Cloning,
\* Scanning, Validating, Installing, and nothing is removed from or copied
\* into the plugin folder before every discovered candidate has passed
\* validation.
StepMessages == <<"Cloning", "Scanning", "Validating", "Installing">>

C8_StepsInOrder ==
    /\ w_mode = "git" => IsPrefix(w_msgs, StepMessages)
    /\ (w_pc \in {"copy", "copytree", "return"} \/ w_k > 0) =>
          /\ Len(w_validated) = Len(w_candidates)
          /\ w_msgs # <<>>
          /\ w_msgs[Len(w_msgs)] = "Installing"

C8_Witness ==
    /\ w_mode = "git"
    /\ w_pc = "return"
    /\ Len(w_validated) = 2
    /\ w_msgs = StepMessages

\* C9: every invocation, git or local, ends with exactly one
\* _installation_complete notification, queued after every other
\* notification of the invocation.
C9_OneFinalCompletion ==
    w_pc = "done" =>
        /\ w_completes = 1
        /\ w_last_posted = "installation_complete"

\* C10: when the UI thread has run the _enable_plugin_by_name invocations of
\* a successful installation and reaches its _installation_success, every
\* plugin the installation returned is in the registry exactly once.
C10_InstalledRegisteredOnce ==
    NextSlot = "installation_success" =>
        \A n \in Head(queue).names :
            Cardinality({i \in DOMAIN plugins : plugins[i].name = n}) = 1

(***************************************************************************)
(* PluginDiscovery.discover as a function of the directory tree            *)
(***************************************************************************)
DiscoverInit ==
    /\ n_inputs = 0
    /\ InitUi /\ InitWorker /\ InitPlugins /\ InitCv /\ InitMg /\ InitUv /\ InitExt
    /\ dv_tree \in DvTrees
    /\ dv_result = [done |-> FALSE, found |-> <<>>]

\* candidates = discovery.discover(repo_root)
call_discover ==
    /\ ~dv_result.done
    /\ dv_result' = [done |-> TRUE, found |-> discover(dv_tree)]
    /\ UNCHANGED <<main_vars, cv_vars, dv_tree, mg_vars, uv_vars, ext_vars>>

DiscoverNext == call_discover

DiscoverSpec == DiscoverInit /\ [][DiscoverNext]_vars

\* C11: discover(root) returns exactly the directories below root, at any
\* depth, that hold both an __init__.py file and a MANIFEST.toml file, each
\* once; never a directory with only one of the two, never root itself.
C11_DiscoverExactlyPackages ==
    dv_result.done =>
        /\ ToSet(dv_result.found) =
              {p \in DvPaths \ {<<>>} :
                  /\ dv_tree[p].kind = "dir"
                  /\ dv_tree[p].init
                  /\ dv_tree[p].manifest}
        /\ Cardinality(ToSet(dv_result.found)) = Len(dv_result.found)

\* a nested package is found, a directory with one file is not, and root
\* holds both files
C11_Witness ==
    /\ dv_result.done
    /\ dv_result.found = << <<"a", "c">> >>
    /\ dv_tree[<<>>].init /\ dv_tree[<<>>].manifest
    /\ dv_tree[<<"a">>].init /\ ~dv_tree[<<"a">>].manifest
    /\ dv_tree[<<"b">>].kind = "dir" /\ dv_tree[<<"b">>].manifest

(***************************************************************************)
(* PluginManager called directly: add_directory, set_plugin_enabled,       *)
(* enable_plugin and disable_plugin on a registry that starts empty and a  *)
(* persisted list of enabled plugins without duplicates.                   *)
(***************************************************************************)
MaxCalls == 3

Last(path) == path[Len(path)]

\* The sequences that list every element of S once
Orders(S) ==
    {o \in [1..Cardinality(S) -> S] : \A i, j \in DOMAIN o : o[i] = o[j] => i = j}

\* manager.py: is_plugin_enabled
is_plugin_enabled(enabled_list, plugin_name) == plugin_name \in ToSet(enabled_list)

\* What load_module/enable and disable can end with
LoadOutcomes ==
    {"ok", "ImportError", "OSError", "AttributeError", "TypeError", "RuntimeError"}
UnloadOutcomes == {"ok", "AttributeError", "TypeError", "RuntimeError"}

\* Mutant: enable_plugin catches import errors only
enable_plugin_except_import == {"ImportError"}

\* manager.py: the except clause of enable_plugin
enable_plugin_except == {"ImportError", "OSError", "AttributeError", "TypeError"}

\* manager.py: the except clause of disable_plugin
disable_plugin_except == {"AttributeError", "TypeError"}

\* The first entry whose outcome is an exception not in `handled`; 0 if none
FirstEscape(out, handled) ==
    LET escaping == {i \in DOMAIN out : out[i] \notin handled \cup {"ok"}}
    IN IF escaping = {} THEN 0
       ELSE CHOOSE i \in escaping : \A j \in escaping : i <= j

\* manager.py: disable_plugin, after set_plugin_enabled: disable() for every
\* registered plugin of that name that is loaded; unloaded[i] tells whether
\* entry i ends without its module.
disable_plugin(reg, plugin_name, unloaded) ==
    [i \in DOMAIN reg |->
        IF reg[i].name = plugin_name /\ reg[i].module
        THEN [reg[i] EXCEPT !.module = ~unloaded[i]]
        ELSE reg[i]]

\* Mutant: every entry below the directory, at any depth
iterdir_recursive(dir) == {p \in DOMAIN dir : dir[p].kind # "absent"}

\* Path.iterdir: the immediate entries of the directory
iterdir(dir) == {p \in DOMAIN dir : Len(p) = 1 /\ dir[p].kind # "absent"}

\* Mutant: enable_plugin does not look at `_module`
enable_targets_any(reg, plugin_name) ==
    {i \in DOMAIN reg : reg[i].name = plugin_name}

\* enable_plugin: `plugin.name == plugin_name and not getattr(plugin, '_module', None)`
enable_targets(reg, plugin_name) ==
    {i \in DOMAIN reg : reg[i].name = plugin_name /\ ~reg[i].module}

\* disable_plugin: `plugin.name == plugin_name and getattr(plugin, '_module', None)`
disable_targets(reg, plugin_name) ==
    {i \in DOMAIN reg : reg[i].name = plugin_name /\ reg[i].module}

\* The method calls made on the registry's plugins by one pass of the loop
\* `for plugin in self._plugins`: made[i] are the methods called on entry i,
\* for the entries the loop reached.  (An entry whose load failed and that
\* ends without its module is one whose load_module raised: enable is not
\* called on it.)
RECURSIVE CallsUpTo(_, _, _)
CallsUpTo(k, reached, made) ==
    IF k = 0 THEN <<>>
    ELSE CallsUpTo(k - 1, reached, made) \o
         (IF k \in reached
          THEN [j \in 1..Len(made[k]) |-> <<k, made[k][j]>>] ELSE <<>>)

ManagerInit ==
    /\ n_inputs = 0
    /\ InitUi /\ InitWorker /\ InitCv /\ InitDv /\ InitUv /\ InitExt
    /\ plugin_folder = [n \in PluginNames |-> Absent]
    /\ plugins = <<>>
    /\ enabled_plugins \in {l \in SeqsUpTo(PluginNames, 2) :
                               Cardinality(ToSet(l)) = Len(l)}
    /\ mg_dir \in MgDirs
    /\ mg_call = NoCall

ManagerFrame ==
    UNCHANGED <<ui_vars, plugin_folder, queue, w_pc, loop_vars, step_vars,
                ghost_vars, n_inputs, cv_vars, dv_vars, uv_vars, ext_vars, mg_dir>>

\* add_directory(mg_dir)
call_add_directory ==
    /\ mg_call.n < MaxCalls
    /\ \E order \in Orders(iterdir(mg_dir)) :
          LET folder == [p \in DOMAIN mg_dir |->
                            IF mg_dir[p].kind = "dir"
                            THEN Tree(mg_dir[p].read) ELSE Absent]
              is_dir == SelectSeq(order, LAMBDA p : mg_dir[p].kind = "dir")
              found == SelectSeq(is_dir, LAMBDA p : load_plugin(folder, p, TRUE))
          IN
          /\ plugins' = plugins \o [i \in 1..Len(found) |->
                                       Plugin(Last(found[i]), mg_dir[found[i]].read)]
          /\ mg_call' = [n |-> mg_call.n + 1, op |-> "add_directory",
                         name |-> "none", enabled |-> FALSE, failures |-> {},
                         raised |-> "none", before |-> plugins,
                         loads |-> {<<p, load_plugin(folder, p, TRUE)>> :
                                       p \in ToSet(is_dir)},
                         calls |-> <<>>]
    /\ UNCHANGED enabled_plugins
    /\ ManagerFrame

\* set_plugin_enabled(plugin_name, enabled)
call_set_plugin_enabled ==
    /\ mg_call.n < MaxCalls
    /\ \E plugin_name \in PluginNames, enabled \in BOOLEAN :
          /\ enabled_plugins' = set_plugin_enabled(enabled_plugins, plugin_name, enabled)
          /\ mg_call' = [n |-> mg_call.n + 1, op |-> "set_plugin_enabled",
                         name |-> plugin_name, enabled |-> enabled,
                         failures |-> {}, raised |-> "none", before |-> <<>>,
                         loads |-> {}, calls |-> <<>>]
    /\ UNCHANGED plugins
    /\ ManagerFrame

\* enable_plugin(plugin_name)
call_enable_plugin ==
    /\ mg_call.n < MaxCalls
    /\ \E plugin_name \in PluginNames :
          LET targets == enable_targets(plugins, plugin_name)
          IN
          \E out \in [targets -> LoadOutcomes], loaded \in [targets -> BOOLEAN] :
             LET stop == FirstEscape(out, enable_plugin_except)
                 reached == {i \in targets : stop = 0 \/ i <= stop}
             IN
             /\ \A i \in targets :
                   /\ i \notin reached => ~loaded[i]
                   /\ i \in reached /\ out[i] = "ok" => loaded[i]
             /\ enabled_plugins' = set_plugin_enabled(enabled_plugins, plugin_name, TRUE)
             /\ plugins' = enable_plugin(plugins, plugin_name, loaded)
             /\ mg_call' = [n |-> mg_call.n + 1, op |-> "enable_plugin",
                            name |-> plugin_name, enabled |-> TRUE,
                            failures |-> {out[i] : i \in reached} \ {"ok"},
                            raised |-> IF stop = 0 THEN "none" ELSE out[stop],
                            before |-> <<>>, loads |-> {},
                            calls |-> CallsUpTo(Len(plugins), reached,
                                [i \in targets |->
                                    IF out[i] = "ok" \/ loaded[i]
                                    THEN <<"load_module", "enable">>
                                    ELSE <<"load_module">>])]
    /\ ManagerFrame

\* disable_plugin(plugin_name)
call_disable_plugin ==
    /\ mg_call.n < MaxCalls
    /\ \E plugin_name \in PluginNames :
          LET targets == disable_targets(plugins, plugin_name)
          IN
          \E out \in [targets -> UnloadOutcomes], unloaded \in [targets -> BOOLEAN] :
             LET stop == FirstEscape(out, disable_plugin_except)
                 reached == {i \in targets : stop = 0 \/ i <= stop}
             IN
             /\ \A i \in targets :
                   /\ i \notin reached => ~unloaded[i]
                   /\ i \in reached /\ out[i] = "ok" => unloaded[i]
             /\ enabled_plugins' = set_plugin_enabled(enabled_plugins, plugin_name, FALSE)
             /\ plugins' = disable_plugin(plugins, plugin_name, unloaded)
             /\ mg_call' = [n |-> mg_call.n + 1, op |-> "disable_plugin",
                            name |-> plugin_name, enabled |-> FALSE,
                            failures |-> {out[i] : i \in reached} \ {"ok"},
                            raised |-> IF stop = 0 THEN "none" ELSE out[stop],
                            before |-> <<>>, loads |-> {},
                            calls |-> CallsUpTo(Len(plugins), reached,
                                [i \in targets |-> <<"disable">>])]
    /\ ManagerFrame

ManagerNext ==
    \/ call_add_directory
    \/ call_set_plugin_enabled
    \/ call_enable_plugin
    \/ call_disable_plugin

ManagerSpec == ManagerInit /\ [][ManagerNext]_vars

NoDuplicates(list) == Cardinality(ToSet(list)) = Len(list)

\* C12: set_plugin_enabled is idempotent (repeating the call just made leaves
\* the list of enabled plugins as it is), and starting from a list without
\* duplicates no sequence of set_plugin_enabled, enable_plugin and
\* disable_plugin calls makes a name appear twice in it.
C12_EnabledListNoDuplicates ==
    /\ NoDuplicates(enabled_plugins)
    /\ mg_call.op = "set_plugin_enabled" =>
          set_plugin_enabled(enabled_plugins, mg_call.name, mg_call.enabled)
              = enabled_plugins

C12_Witness ==
    /\ mg_call.op = "set_plugin_enabled" /\ mg_call.n = 3
    /\ mg_call.name = "p1" /\ mg_call.enabled
    /\ enabled_plugins = <<"p2", "p1">>

\* C13: enable_plugin leaves the name enabled and disable_plugin leaves it
\* disabled in the persisted list, whatever happens to the module; and
\* neither call raises when no plugin of that name is registered or when
\* loading fails with ImportError, OSError, AttributeError or TypeError,
\* respectively unloading with AttributeError or TypeError.
C13_FlagUpdatedNeverRaises ==
    /\ mg_call.op = "enable_plugin" =>
          /\ is_plugin_enabled(enabled_plugins, mg_call.name)
          /\ mg_call.failures \subseteq
                {"ImportError", "OSError", "AttributeError", "TypeError"}
                => mg_call.raised = "none"
    /\ mg_call.op = "disable_plugin" =>
          /\ ~is_plugin_enabled(enabled_plugins, mg_call.name)
          /\ mg_call.failures \subseteq {"AttributeError", "TypeError"}
                => mg_call.raised = "none"

C13_Witness ==
    /\ mg_call.op = "enable_plugin" /\ mg_call.name = "p1"
    /\ mg_call.failures = {"TypeError"} /\ mg_call.raised = "none"
    /\ Registered(plugins, "p1")
    /\ is_plugin_enabled(enabled_plugins, "p1")

HostCompatible(api) == ToSet(api) \cap ToSet(api_versions_tuple) # {}

\* C14: _load_plugin returns None for a directory whose manifest cannot be
\* read (OSError, ValueError, KeyError) or whose API versions are
\* incompatible, so every plugin of the registry declares an API version
\* the host supports.
C14_RegistryCompatible ==
    /\ \A i \in DOMAIN plugins : HostCompatible(plugins[i].api)
    /\ \A l \in mg_call.loads :
          (\/ mg_dir[l[1]].read.parse \in {"OSError", "ValueError", "KeyError"}
           \/ ~HostCompatible(mg_dir[l[1]].read.api)) => ~l[2]

C14_Witness ==
    /\ mg_call.op = "add_directory"
    /\ mg_dir[<<"p1">>].read = OkManifest(<<"2.9">>)
    /\ mg_dir[<<"p2">>].read = OkManifest(<<"2.9", "3.0">>)
    /\ <<<<"p1">>, FALSE>> \in mg_call.loads
    /\ Len(plugins) = 1 /\ plugins[1].name = "p2"

\* C15: one add_directory call appends to the registry exactly the immediate
\* subdirectories whose manifest is readable and compatible, each once:
\* no plain file, no directory without a readable manifest, no package
\* nested one level further down.
C15_RegistersImmediateSubdirs ==
    mg_call.op = "add_directory" =>
        LET added == SubSeq(plugins, Len(mg_call.before) + 1, Len(plugins))
            expected == {p \in MgPaths :
                            /\ Len(p) = 1
                            /\ mg_dir[p].kind = "dir"
                            /\ mg_dir[p].read.parse = "ok"
                            /\ HostCompatible(mg_dir[p].read.api)}
        IN /\ IsPrefix(mg_call.before, plugins)
           /\ Len(added) = Cardinality(expected)
           /\ {added[i].name : i \in DOMAIN added} = {Last(p) : p \in expected}

C15_Witness ==
    /\ mg_call.op = "add_directory"
    /\ mg_dir[<<"p1">>].kind = "dir" /\ mg_dir[<<"p1">>].read.parse = "OSError"
    /\ mg_dir[<<"p1", "n1">>].kind = "dir"
    /\ mg_dir[<<"p2">>].kind = "dir" /\ mg_dir[<<"p2">>].read.parse = "ok"
    /\ Len(plugins) = 1 /\ plugins[1].name = "p2"

(***************************************************************************)
(* is_valid_git_url applied to one text                                    *)
(***************************************************************************)
MaxAuthorityLen == 4
MaxPathLen == 6

\* No two text tokens and no two digit tokens side by side: they would be
\* one token
Tokenized(t) == \A i \in 1..(Len(t) - 1) : t[i] = t[i + 1] => t[i] \in {":", "/", "@"}

UrlPrefixes ==
    {<<s, ":", "/", "/">> : s \in {"https", "http", "ftp", "file"}} \cup {<<>>}
UrlAuthorities == {a \in SeqsUpTo({"h", "@", ":", "443"}, MaxAuthorityLen) : Tokenized(a)}
UrlPaths == {t \in SeqsUpTo({"/", "u"}, MaxPathLen) : Tokenized(t)}
UrlInit ==
    /\ n_inputs = 0
    /\ InitUi /\ InitWorker /\ InitPlugins /\ InitCv /\ InitDv /\ InitMg /\ InitExt
    /\ \E p \in UrlPrefixes, a \in UrlAuthorities, r \in UrlPaths :
          /\ uv_url = p \o a \o r
          /\ Tokenized(uv_url)
    /\ uv_result = [done |-> FALSE, validator |-> FALSE, dialog |-> FALSE]

\* UrlValidator().is_valid_git_url(uv_url) and dialog._is_valid_git_url(uv_url)
call_is_valid_git_url ==
    /\ ~uv_result.done
    /\ uv_result' = [done |-> TRUE,
                     validator |-> UrlValidator_is_valid_git_url(uv_url),
                     dialog |-> is_valid_git_url(uv_url)]
    /\ UNCHANGED <<main_vars, cv_vars, dv_vars, mg_vars, ext_vars, uv_url>>

UrlNext == call_is_valid_git_url

UrlSpec == UrlInit /\ [][UrlNext]_vars

\* The texts between the "/" of a text
RECURSIVE SplitSlash(_)
SplitSlash(t) ==
    IF Positions(t, "/") = {} THEN <<t>>
    ELSE LET p == CHOOSE i \in Positions(t, "/") : \A j \in Positions(t, "/") : i <= j
         IN <<SubSeq(t, 1, p - 1)>> \o SplitSlash(SubSeq(t, p + 1, Len(t)))

\* host, or host ":" digits
IsHostPort(hp) ==
    \E m \in 1..Len(hp) :
        /\ \A i \in 1..m : hp[i] # ":"
        /\ \/ m = Len(hp)
           \/ /\ m + 2 <= Len(hp)
              /\ hp[m + 1] = ":"
              /\ \A i \in (m + 2)..Len(hp) : hp[i] \in Digits

\* host-and-port, or userinfo "@" host-and-port
IsAuthority(a) ==
    \/ IsHostPort(a)
    \/ \E k \in 2..Len(a) :
          /\ a[k] = "@"
          /\ \A i \in 1..(k - 1) : a[i] # "@"
          /\ IsHostPort(SubSeq(a, k + 1, Len(a)))

\* An http or https URL with optional userinfo, a host, an optional numeric
\* port and exactly two non-empty path segments, optionally followed by one
\* trailing slash
IsRepositoryUrl(url) ==
    /\ Len(url) >= 4
    /\ url[1] \in {"http", "https"}
    /\ SubSeq(url, 2, 4) = <<":", "/", "/">>
    /\ LET parts == SplitSlash(SubSeq(url, 5, Len(url)))
           segments == IF Len(parts) > 1 /\ parts[Len(parts)] = <<>>
                       THEN SubSeq(parts, 2, Len(parts) - 1)
                       ELSE Tail(parts)
       IN /\ IsAuthority(parts[1])
          /\ Len(segments) = 2
          /\ segments[1] # <<>> /\ segments[2] # <<>>

ValidRows(inputs) == {i \in DOMAIN inputs : is_valid_git_url(Strip(inputs[i]))}

\* A handler has validated the URL rows: a row was edited or added
UrlRowsValidated == url_inputs' # url_inputs

\* C16: after every validation of the URL rows on the Git tab, the Install
\* button is enabled exactly when some row, trimmed, holds a valid URL
\* (the list of unique valid URLs is not empty).
C16_InstallEnabledIffValidUrl ==
    [][UrlRowsValidated /\ current_method' = "git"
          => (install_enabled' <=> ValidRows(url_inputs') # {})]_vars

C16_Witness ==
    /\ current_method = "git"
    /\ url_inputs = << <<"git", "@", "host", ":", "user", "/", "r1">>, Url("r2") >>
    /\ install_enabled
    /\ w_pc = "idle"

\* The first row whose trimmed text is u
FirstRow(inputs, u) ==
    CHOOSE i \in DOMAIN inputs :
        Strip(inputs[i]) = u /\ \A j \in 1..(i - 1) : Strip(inputs[j]) # u

GitWorkerStarted == w_pc = "idle" /\ w_pc' # "idle" /\ current_method = "git"

\* C17: on the Git tab _start_installation starts no worker when no row
\* holds a valid URL; when it starts the worker, the worker gets the valid
\* URLs of the rows, trimmed, each once and in the order of the rows, the
\* error label is hidden and the Install button is disabled.
C17_StartPassesUniqueValidUrls ==
    [][/\ (current_method = "git" /\ w_pc = "idle" /\ ValidRows(url_inputs) = {})
             => w_pc' = "idle"
       /\ GitWorkerStarted =>
             /\ w_mode' = "git"
             /\ Cardinality(ToSet(w_urls')) = Len(w_urls')
             /\ ToSet(w_urls') = {Strip(url_inputs[i]) : i \in ValidRows(url_inputs)}
             /\ \A a, b \in DOMAIN w_urls' :
                   a < b => FirstRow(url_inputs, w_urls'[a])
                               < FirstRow(url_inputs, w_urls'[b])
             /\ ~error_visible'
             /\ ~install_enabled']_vars

C17_Witness ==
    /\ w_pc = "loop" /\ w_i = 1 /\ w_mode = "git"
    /\ url_inputs = << <<" ">> \o Url("r1"), Url("r1") >>
    /\ w_urls = <<Url("r1")>>
    /\ ~install_enabled /\ ~error_visible

\* C18: the Close button is enabled in every reachable state of the dialog:
\* idle, while an installation runs, after success and after failure.
C18_CloseAlwaysEnabled == close_enabled

C18_Witness ==
    /\ close_enabled
    /\ w_pc = "done"
    /\ error_visible
    /\ success_count > 0 /\ error_count > 0

(***************************************************************************)
(* Sources with valid and invalid candidates                               *)
(***************************************************************************)
\* The causes validate gives for an invalid candidate
InvalidCandidate == {"unreadable", "manifest", "incompatible"}

\* C20: when a source holds valid and invalid candidates, the invalid ones
\* are skipped and the valid ones installed: a source that fails on an
\* invalid candidate has copied every candidate it had found valid.
C20_InvalidSkippedValidInstalled ==
    \A f \in w_failures :
        f.cause \in InvalidCandidate /\ f.planned # <<>>
            => f.copied = Len(f.planned)

(***************************************************************************)
(* The Install button after an installation                                *)
(***************************************************************************)
\* The worker has ended, the UI thread has run every queued invocation and
\* at least one plugin was reported installed
AllProcessed == w_pc = "done" /\ queue = <<>> /\ w_reported # {}

\* C21: once the UI thread has processed all notifications of an
\* installation that installed at least one plugin, the Install button is
\* disabled and stays so until the user changes an input: no step that ends
\* in such a state switches the button on, unless it is a user input.
C21_InstallDisabledAfterSuccess ==
    [][(AllProcessed' /\ ~install_enabled /\ install_enabled')
          => n_inputs' # n_inputs]_vars

(***************************************************************************)
(* GitInstallTab: previews of the repositories.  _maybe_preview runs on    *)
(* the UI thread after every change of the rows; each preview run works in *)
(* a background thread and its `apply` is run by the UI thread when the    *)
(* worker has ended, in any order.                                         *)
(***************************************************************************)
MaxPreviews == 3

\* What valid_urls() can return
PreviewUrlLists ==
    {l \in SeqsUpTo({"r1", "r2"}, 2) : Cardinality(ToSet(l)) = Len(l)}

\* What a preview worker hands to apply: sections, no section, or an error
PreviewOutcomes == {"html", "no html", "error"}

\* Mutant: apply does not look at the token
preview_is_current_always(token, preview_token) == TRUE

\* apply: `if token != self._preview_token: return`
preview_is_current(token, preview_token) == token = preview_token

PreviewFrame ==
    UNCHANGED <<main_vars, cv_vars, dv_vars, mg_vars, uv_vars, coordinator,
                url_rows, list_manager, now_playing>>

\* _maybe_preview, and _start_preview up to thread.run_task
maybe_preview ==
    /\ \E urls \in PreviewUrlLists :
          IF urls = <<>>
          THEN git_tab' = [git_tab EXCEPT !.urls = urls,
                                          !.plugin_info_text = NoText,
                                          !.cleared = TRUE]
          ELSE /\ git_tab.preview_token < MaxPreviews
               /\ LET token == git_tab.preview_token + 1 IN
                  git_tab' = [git_tab EXCEPT
                                 !.urls = urls,
                                 !.preview_token = token,
                                 !.plugin_info_text =
                                     [kind |-> "analyzing", token |-> token],
                                 !.runs = @ \cup {token},
                                 !.cleared = FALSE]
    /\ PreviewFrame

\* _start_preview.apply for the run started with `token`
preview_apply ==
    /\ \E token \in git_tab.runs, outcome \in PreviewOutcomes :
          IF ~preview_is_current(token, git_tab.preview_token)
          THEN git_tab' = [git_tab EXCEPT !.runs = @ \ {token},
                                          !.discarded = @ \cup {token}]
          ELSE git_tab' = [git_tab EXCEPT
                  !.runs = @ \ {token},
                  !.plugin_info_text =
                      CASE outcome = "html" -> [kind |-> "result", token |-> token]
                        [] outcome = "no html" -> NoText
                        [] OTHER -> @]
    /\ PreviewFrame

PreviewInit ==
    /\ n_inputs = 0
    /\ InitUi /\ InitWorker /\ InitPlugins
    /\ InitCv /\ InitDv /\ InitMg /\ InitUv /\ InitExt

PreviewNext == maybe_preview \/ preview_apply

PreviewSpec == PreviewInit /\ [][PreviewNext]_vars

\* C22: the plugin information shows the result of a preview run only if
\* that run is the one started last; the result of an older run that comes
\* in after a newer run was started is discarded, in whatever order the
\* workers end.
C22_OnlyLatestPreviewApplied ==
    /\ git_tab.plugin_info_text.kind = "result"
          => git_tab.plugin_info_text.token = git_tab.preview_token
    /\ \A token \in git_tab.discarded : token < git_tab.preview_token

C22_Witness ==
    /\ git_tab.preview_token = 2
    /\ git_tab.discarded = {1}
    /\ git_tab.plugin_info_text = [kind |-> "result", token |-> 2]

\* C23: once the list of valid URLs has become empty the plugin information
\* is cleared and stays cleared until a new preview run is started.
C23_ClearedStaysCleared ==
    git_tab.cleared => git_tab.plugin_info_text.kind = "empty"

(***************************************************************************)
(* InstallCoordinator.install                                              *)
(***************************************************************************)
MaxUrls == 3

\* What install_from_git / install_from_local does for one source: it
\* returns the installed names or raises
InstallOutcomes ==
    {[kind |-> "ok", names |-> n] : n \in {<<"p1">>, <<"p1", "p2">>}}
        \cup {[kind |-> e, names |-> <<>>] :
                 e \in PluginInstallationError \cup {"OSError", "ValueError"}}

\* self._source.collect_inputs(), or no source set
CoordinatorSources ==
    {[kind |-> "none", urls |-> <<>>]} \cup
    {[kind |-> "directory", urls |-> <<"d1">>]} \cup
    {[kind |-> "urls", urls |-> u] : u \in SeqsUpTo({"r1", "r2"}, MaxUrls)}

\* install: `for url in inputs["urls"]` with its `seen` set
RECURSIVE install_urls(_, _, _, _, _, _)
install_urls(urls, seen, installed, errors, attempted, outcome) ==
    IF urls = <<>>
    THEN [returned |-> TRUE, raised |-> "none", installed |-> installed,
          error_count |-> errors, attempted |-> attempted]
    ELSE LET url == Head(urls)
             o == outcome[url]
         IN IF url \in seen
            THEN install_urls(Tail(urls), seen, installed, errors,
                              attempted, outcome)
            ELSE IF o.kind = "ok"
            THEN install_urls(Tail(urls), seen \cup {url}, installed \o o.names,
                              errors, Append(attempted, url), outcome)
            ELSE IF o.kind \in PluginInstallationError
            THEN install_urls(Tail(urls), seen \cup {url}, installed,
                              errors + 1, Append(attempted, url), outcome)
            ELSE [returned |-> FALSE, raised |-> o.kind, installed |-> installed,
                  error_count |-> errors, attempted |-> Append(attempted, url)]

\* InstallCoordinator.install
coordinator_install(source, outcome) ==
    IF source.kind = "none"
    THEN [returned |-> TRUE, raised |-> "none", installed |-> <<>>,
          error_count |-> 0, attempted |-> <<>>]
    ELSE IF source.kind = "urls"
    THEN install_urls(source.urls, {}, <<>>, 0, <<>>, outcome)
    ELSE LET o == outcome[source.urls[1]] IN
         IF o.kind = "ok"
         THEN [returned |-> TRUE, raised |-> "none", installed |-> o.names,
               error_count |-> 0, attempted |-> source.urls]
         ELSE IF o.kind \in PluginInstallationError
         THEN [returned |-> TRUE, raised |-> "none", installed |-> <<>>,
               error_count |-> 1, attempted |-> source.urls]
         ELSE [returned |-> FALSE, raised |-> o.kind, installed |-> <<>>,
               error_count |-> 0, attempted |-> source.urls]

CoordinatorInit ==
    /\ n_inputs = 0
    /\ InitUi /\ InitWorker /\ InitPlugins
    /\ InitCv /\ InitDv /\ InitMg /\ InitUv
    /\ InitGitTab /\ InitUrlRows /\ InitListManager /\ InitNowPlaying
    /\ \E source \in CoordinatorSources :
       \E outcome \in [ToSet(source.urls) -> InstallOutcomes] :
          coordinator = [done |-> FALSE, source |-> source, outcome |-> outcome]

call_coordinator_install ==
    /\ ~coordinator.done
    /\ coordinator' =
          [done |-> TRUE, source |-> coordinator.source,
           outcome |-> coordinator.outcome,
           result |-> coordinator_install(coordinator.source, coordinator.outcome)]
    /\ UNCHANGED <<main_vars, cv_vars, dv_vars, mg_vars, uv_vars, git_tab,
                   url_rows, list_manager, now_playing>>

CoordinatorNext == call_coordinator_install

CoordinatorSpec == CoordinatorInit /\ [][CoordinatorNext]_vars

\* The names the sources of `order` installed, one source after the other
RECURSIVE InstalledBy(_, _)
InstalledBy(order, outcome) ==
    IF order = <<>> THEN <<>>
    ELSE outcome[Head(order)].names \o InstalledBy(Tail(order), outcome)

\* C24: install attempts each distinct URL once, in the order of first
\* occurrence, and returns the names installed by the URLs that succeeded,
\* in that order, with the number of distinct URLs that failed; without a
\* source it returns ([], 0), and a failed directory installation returns
\* ([], 1).
C24_CoordinatorResult ==
    coordinator.done =>
        LET source == coordinator.source
            outcome == coordinator.outcome
            result == coordinator.result
            distinct == Unique(source.urls, {})
        IN /\ result.returned
           /\ result.attempted = distinct
           /\ result.installed = InstalledBy(distinct, outcome)
           /\ result.error_count =
                 Cardinality({u \in ToSet(distinct) : outcome[u].kind # "ok"})

(***************************************************************************)
(* Copy targets of one installation                                        *)
(***************************************************************************)
\* C25: within one installation the copy targets of the validated plugins
\* are pairwise distinct: no two copies of the same source went to the same
\* target, and the list of names the installation returns holds no name
\* twice.
C25_CopyTargetsDistinct ==
    /\ \A c, d \in w_copied :
          (c[1] = d[1] /\ c[3] = d[3]) => c[2] = d[2]
    /\ w_pc = "return" => NoDuplicates(Names(w_validated))

(***************************************************************************)
(* RepositoryUrlInputs: the URL rows and the + button                      *)
(***************************************************************************)
\* Texts typed into a row: nothing, a valid URL, an invalid one
RowTexts == {<<>>, Url("r1"), <<"git", "@", "host", ":", "user", "/", "r1">>}

\* Mutant: the + button stays enabled at max_urls rows
reposition_add_button_inclusive(inputs) == Len(inputs) <= MAX_URLS

\* _reposition_add_button: add_button.setEnabled(len(url_inputs) < max_urls)
reposition_add_button(inputs) == Len(inputs) < MAX_URLS

\* validate: the feedback shows an error when a non-empty row is invalid
rows_validate(inputs) ==
    LET texts == [i \in DOMAIN inputs |-> Strip(inputs[i])]
        non_empty == SelectSeq(texts, LAMBDA t : t # <<>>)
        invalid == SelectSeq(non_empty, LAMBDA t : ~UrlValidator_is_valid_git_url(t))
    IN invalid # <<>>

UrlRowsFrame ==
    UNCHANGED <<main_vars, cv_vars, dv_vars, mg_vars, uv_vars, git_tab,
                coordinator, list_manager, now_playing>>

\* _on_add_url_clicked
rows_on_add_url_clicked ==
    /\ IF Len(url_rows.url_inputs) < MAX_URLS
       THEN LET inputs == Append(url_rows.url_inputs, <<>>) IN
            url_rows' = [url_inputs |-> inputs,
                         add_button_enabled |-> reposition_add_button(inputs),
                         feedback_error |-> rows_validate(inputs),
                         last |-> "add"]
       ELSE url_rows' = [url_rows EXCEPT
                            !.feedback_error = rows_validate(url_rows.url_inputs),
                            !.last = "add"]
    /\ UrlRowsFrame

\* textChanged of a row: validate
rows_text_changed ==
    /\ \E i \in DOMAIN url_rows.url_inputs, t \in RowTexts :
          /\ t # url_rows.url_inputs[i]
          /\ LET inputs == [url_rows.url_inputs EXCEPT ![i] = t] IN
             url_rows' = [url_rows EXCEPT
                             !.url_inputs = inputs,
                             !.feedback_error = rows_validate(inputs),
                             !.last = "edit"]
    /\ UrlRowsFrame

\* reset: pop the rows after the first, clear the first, reposition, validate
rows_reset ==
    /\ LET inputs == <<<<>>>> IN
       url_rows' = [url_inputs |-> inputs,
                    add_button_enabled |-> reposition_add_button(inputs),
                    feedback_error |-> rows_validate(inputs),
                    last |-> "reset"]
    /\ UrlRowsFrame

UrlRowsInit ==
    /\ n_inputs = 0
    /\ InitUi /\ InitWorker /\ InitPlugins
    /\ InitCv /\ InitDv /\ InitMg /\ InitUv /\ InitExt

UrlRowsNext == rows_on_add_url_clicked \/ rows_text_changed \/ rows_reset

UrlRowsSpec == UrlRowsInit /\ [][UrlRowsNext]_vars

\* C26: after any sequence of add-row clicks, edits and resets the number of
\* URL rows is between 1 and MAX_URLS, the + button is enabled exactly when
\* there are fewer than MAX_URLS rows, and a reset leaves one empty row.
C26_RowsWithinBounds ==
    /\ Len(url_rows.url_inputs) \in 1..MAX_URLS
    /\ url_rows.add_button_enabled <=> Len(url_rows.url_inputs) < MAX_URLS
    /\ url_rows.last = "reset" => url_rows.url_inputs = <<<<>>>>

\* The + button was clicked with MAX_URLS rows present
C26_Witness ==
    /\ Len(url_rows.url_inputs) = MAX_URLS
    /\ url_rows.last = "add"
    /\ ~url_rows.add_button_enabled

(***************************************************************************)
(* PluginListManager: the list of installed plugins and its actions        *)
(***************************************************************************)
\* get_installed_plugins_with_labels: the directories of the plugin folder
\* that hold __init__.py and a MANIFEST.toml that parses; present[n] tells
\* whether both files are found in an incomplete tree.  (A manifest that
\* does not parse ends the scan; the folders of this specification hold
\* none.)
get_installed_plugins(folder, present) ==
    {n \in DOMAIN folder :
        /\ folder[n] # Absent
        /\ folder[n].complete \/ present[n]
        /\ folder[n].manifest.parse = "ok"}

\* refresh: self._disabled = {slug for (slug, _label) in items} - enabled
refresh_disabled(items, enabled_list) == items \ ToSet(enabled_list)

\* shutil.rmtree(target_dir): the tree is gone, or OSError was raised with
\* nothing or only a part of the tree removed
RmtreeOutcomes(tree) ==
    IF tree = Absent THEN {[raised |-> "none", tree |-> Absent]}
    ELSE {[raised |-> "none", tree |-> Absent],
          [raised |-> "OSError", tree |-> tree],
          [raised |-> "OSError", tree |-> PartialTree(tree.manifest)]}

\* The exceptions toggle_selected catches and uninstall_selected suppresses
list_manager_except == {"ImportError", "OSError", "AttributeError", "TypeError"}

ListFrame ==
    UNCHANGED <<ui_vars, queue, w_pc, loop_vars, step_vars, ghost_vars,
                n_inputs, cv_vars, dv_vars, mg_vars, uv_vars, git_tab,
                coordinator, url_rows, now_playing>>

\* refresh(preserve_selection)
refreshed(lm, folder, enabled_list, present, preserve_selection, call) ==
    LET items == get_installed_plugins(folder, present) IN
    [items |-> items,
     disabled |-> refresh_disabled(items, enabled_list),
     selected |-> IF preserve_selection /\ lm.selected \in items
                  THEN lm.selected ELSE "none",
     last |-> call]

list_refresh ==
    /\ \E present \in [PluginNames -> BOOLEAN] :
          list_manager' = refreshed(list_manager, plugin_folder, enabled_plugins,
                                    present, TRUE,
                                    [NoListCall EXCEPT !.op = "refresh"])
    /\ UNCHANGED <<pm_vars, plugin_folder>>
    /\ ListFrame

\* The user selects a row of the list view
list_select ==
    /\ \E name \in list_manager.items :
          /\ name # list_manager.selected
          /\ list_manager' = [list_manager EXCEPT
                                 !.selected = name,
                                 !.last = [NoListCall EXCEPT !.op = "select",
                                                             !.name = name]]
    /\ UNCHANGED <<pm_vars, plugin_folder>>
    /\ ListFrame

\* toggle_selected
toggle_selected ==
    /\ list_manager.selected # "none"
    /\ LET name == list_manager.selected
           enabling == name \in list_manager.disabled
           targets == {i \in DOMAIN plugins :
                          /\ plugins[i].name = name
                          /\ plugins[i].module = ~enabling}
       IN
       \E out \in [targets -> LoadOutcomes], changed \in [targets -> BOOLEAN],
          present \in [PluginNames -> BOOLEAN] :
          LET handled == IF enabling THEN enable_plugin_except
                         ELSE disable_plugin_except
              stop == FirstEscape(out, handled)
              reached == {i \in targets : stop = 0 \/ i <= stop}
              raised == IF stop = 0 THEN "none" ELSE out[stop]
              call == [op |-> "toggle", name |-> name, raised |-> raised,
                       rmtree |-> "none"]
          IN
          /\ enabling \/ \A i \in targets : out[i] \in UnloadOutcomes
          /\ \A i \in targets :
                /\ i \notin reached => ~changed[i]
                /\ i \in reached /\ out[i] = "ok" => changed[i]
          /\ enabled_plugins' = set_plugin_enabled(enabled_plugins, name, enabling)
          /\ plugins' = IF enabling THEN enable_plugin(plugins, name, changed)
                        ELSE disable_plugin(plugins, name, changed)
          /\ list_manager' =
                IF raised \in list_manager_except \cup {"none"}
                THEN refreshed(list_manager, plugin_folder, enabled_plugins',
                               present, TRUE, [call EXCEPT !.raised = "none"])
                ELSE [list_manager EXCEPT !.last = call]
    /\ UNCHANGED plugin_folder
    /\ ListFrame

\* uninstall_selected
uninstall_selected ==
    /\ list_manager.selected # "none"
    /\ LET name == list_manager.selected
           targets == {i \in DOMAIN plugins :
                          plugins[i].name = name /\ plugins[i].module}
       IN
       \E out \in [targets -> UnloadOutcomes], unloaded \in [targets -> BOOLEAN],
          present \in [PluginNames -> BOOLEAN],
          removal \in RmtreeOutcomes(plugin_folder[name]) :
          LET stop == FirstEscape(out, disable_plugin_except)
              reached == {i \in targets : stop = 0 \/ i <= stop}
              raised == IF stop = 0 THEN "none" ELSE out[stop]
          IN
          /\ \A i \in targets :
                /\ i \notin reached => ~unloaded[i]
                /\ i \in reached /\ out[i] = "ok" => unloaded[i]
          /\ enabled_plugins' = set_plugin_enabled(enabled_plugins, name, FALSE)
          /\ plugins' = disable_plugin(plugins, name, unloaded)
          /\ IF raised \in list_manager_except \cup {"none"}
             THEN /\ plugin_folder' = [plugin_folder EXCEPT ![name] = removal.tree]
                  /\ list_manager' =
                        refreshed([list_manager EXCEPT
                                      !.disabled = list_manager.disabled \ {name}],
                                  plugin_folder', enabled_plugins', present, FALSE,
                                  [op |-> "uninstall", name |-> name,
                                   raised |-> "none", rmtree |-> removal.raised])
             ELSE /\ removal.raised = "none"
                  /\ plugin_folder' = plugin_folder
                  /\ list_manager' =
                        [list_manager EXCEPT
                            !.last = [op |-> "uninstall", name |-> name,
                                      raised |-> raised, rmtree |-> "none"]]
    /\ ListFrame

ListInit ==
    /\ n_inputs = 0
    /\ InitUi /\ InitWorker /\ InitCv /\ InitDv /\ InitMg /\ InitUv /\ InitExt
    /\ \E installed \in SUBSET PluginNames, loaded \in SUBSET PluginNames :
          /\ loaded \subseteq installed
          /\ plugin_folder = [n \in PluginNames |->
                                 IF n \in installed THEN PriorTree ELSE Absent]
          /\ \E order \in Orders(installed) :
                plugins = [i \in DOMAIN order |->
                              [Plugin(order[i], PriorTree.manifest)
                                  EXCEPT !.module = order[i] \in loaded]]
    /\ enabled_plugins \in {l \in SeqsUpTo(PluginNames, 2) :
                               Cardinality(ToSet(l)) = Len(l)}

ListNext == list_refresh \/ list_select \/ toggle_selected \/ uninstall_selected

ListSpec == ListInit /\ [][ListNext]_vars

\* uninstall_selected has just returned for a selected plugin
Uninstalled ==
    list_manager.last.op = "uninstall" /\ list_manager.last.raised = "none"

\* C27: after uninstall_selected the plugin is not in enabled_plugins, its
\* directory is gone from the plugin folder and it is not in the list of
\* installed plugins; when removing the directory failed with OSError the
\* plugin is still listed, as disabled.
C27_UninstallRemovesPlugin ==
    Uninstalled =>
        LET name == list_manager.last.name IN
        /\ name \notin ToSet(enabled_plugins)
        /\ IF list_manager.last.rmtree = "OSError"
           THEN name \in list_manager.items /\ name \in list_manager.disabled
           ELSE plugin_folder[name] = Absent /\ name \notin list_manager.items

(***************************************************************************)
(* enable_plugin / disable_plugin: the calls made on the plugins           *)
(***************************************************************************)
EnableCalled == mg_call'.n = mg_call.n + 1 /\ mg_call'.op = "enable_plugin"
DisableCalled == mg_call'.n = mg_call.n + 1 /\ mg_call'.op = "disable_plugin"

Count(log, e) == Cardinality({j \in DOMAIN log : log[j] = e})

\* C28 as stated: enable_plugin(name) calls load_module and enable exactly
\* once on each registered plugin of that name whose module is not loaded,
\* and on no other; disable_plugin(name) calls disable only on registered
\* plugins of that name whose module is loaded.
C28_EachTargetCalledOnce ==
    [][/\ EnableCalled =>
            \A i \in DOMAIN plugins :
               LET target == plugins[i].name = mg_call'.name /\ ~plugins[i].module IN
               /\ Count(mg_call'.calls, <<i, "load_module">>) = IF target THEN 1 ELSE 0
               /\ Count(mg_call'.calls, <<i, "enable">>) = IF target THEN 1 ELSE 0
               /\ Count(mg_call'.calls, <<i, "disable">>) = 0
       /\ DisableCalled =>
            \A j \in DOMAIN mg_call'.calls :
               LET c == mg_call'.calls[j] IN
               /\ c[2] = "disable"
               /\ plugins[c[1]].name = mg_call'.name
               /\ plugins[c[1]].module]_vars

\* C28, amended: enable_plugin(name) touches only the registered plugins of
\* that name whose module is not loaded: on each of them it calls
\* load_module at most once and enable at most once, enable only after
\* load_module; when it does not raise, load_module was called on every one
\* of them, and when no load failed, enable as well.  disable_plugin(name)
\* calls disable, at most once each, only on registered plugins of that
\* name whose module is loaded, and on every one of them when it does not
\* raise.
C28_TargetsCalledAtMostOnce ==
    [][/\ EnableCalled =>
            \A i \in DOMAIN plugins :
               LET target == plugins[i].name = mg_call'.name /\ ~plugins[i].module
                   loads == Count(mg_call'.calls, <<i, "load_module">>)
                   enables == Count(mg_call'.calls, <<i, "enable">>)
               IN
               /\ Count(mg_call'.calls, <<i, "disable">>) = 0
               /\ enables <= loads /\ loads <= 1
               /\ ~target => loads = 0
               /\ target /\ mg_call'.raised = "none" => loads = 1
               /\ target /\ mg_call'.failures = {} => enables = 1
       /\ DisableCalled =>
            /\ \A j \in DOMAIN mg_call'.calls :
                  LET c == mg_call'.calls[j] IN
                  /\ c[2] = "disable"
                  /\ plugins[c[1]].name = mg_call'.name
                  /\ plugins[c[1]].module
            /\ \A i \in DOMAIN plugins :
                  LET target == plugins[i].name = mg_call'.name /\ plugins[i].module
                      disables == Count(mg_call'.calls, <<i, "disable">>)
                  IN /\ disables <= 1
                     /\ target /\ mg_call'.raised = "none" => disables = 1]_vars

\* enable_plugin called load_module on a plugin, the load failed with a
\* handled exception, and enable was not called on it
C28_Witness ==
    /\ mg_call.op = "enable_plugin"
    /\ mg_call.raised = "none"
    /\ mg_call.failures = {"ImportError"}
    /\ mg_call.calls = <<<<1, "load_module">>>>

(***************************************************************************)
(* The installer's and the manager's compatibility checks agree            *)
(***************************************************************************)
\* C29: PluginValidator._is_compatible and _is_plugin_compatible give the
\* same answer for every declared API version value, so what the installer
\* accepts the manager does not reject as incompatible.
C29_ChecksAgree ==
    (cv_manager # "unset" /\ cv_installer # "unset") => cv_installer = cv_manager

\* Both checks ran on a plugin that declares an unsupported and a supported
\* version, and the installer accepted it
C29_Witness ==
    /\ cv_input = PyTuple(<<"4.0", "3.0">>)
    /\ cv_installer = "True"
    /\ cv_manager # "unset"

(***************************************************************************)
(* WindowsNowPlayingService: enable and disable                            *)
(***************************************************************************)
\* No signal is connected more often than this
MaxConnections == 2

PlaybackStates == {"PLAYING", "PAUSED", "STOPPED"}
PlayerFiles == {"none", "f1", "f2"}
PlaybackRates == {1, 2}

\* How the try block of enable ends: it succeeds, MediaPlayer() raises, or
\* a later statement raises with _media_player and _smtc already assigned
SmtcInitOutcomes == {"ok", "no player", "no playback"}

\* Mutant: enable does not look at _enabled
enable_returns_early_never(np) == FALSE

\* enable: `if self._enabled: return`
enable_returns_early(np) == np.enabled

\* _on_playback_state_changed
on_playback_state_changed(np, state) ==
    IF ~np.smtc THEN np
    ELSE [np EXCEPT !.smtc_status =
             IF state = "PLAYING" THEN "PLAYING"
             ELSE IF state = "PAUSED" THEN "PAUSED" ELSE "STOPPED"]

\* _on_media_changed
on_media_changed(np, file) ==
    IF ~np.smtc THEN np
    ELSE [np EXCEPT !.smtc_display = IF file = "none" THEN "cleared" ELSE file]

\* _on_playback_rate_changed
on_playback_rate_changed(np, playback_rate) ==
    IF ~np.smtc THEN np ELSE [np EXCEPT !.smtc_rate = playback_rate]

NowPlayingFrame ==
    UNCHANGED <<main_vars, cv_vars, dv_vars, mg_vars, uv_vars, git_tab,
                coordinator, url_rows, list_manager>>

\* enable
np_enable ==
    /\ \E outcome \in SmtcInitOutcomes :
          LET np == [now_playing EXCEPT !.last = "enable"] IN
          IF enable_returns_early(np)
          THEN now_playing' = np
          ELSE IF outcome = "no player"
          THEN now_playing' = np
          ELSE IF outcome = "no playback"
          THEN now_playing' = [np EXCEPT !.media_player = "created", !.smtc = TRUE,
                                         !.smtc_is_enabled = FALSE,
                                         !.smtc_status = "none",
                                         !.smtc_display = "none",
                                         !.smtc_rate = 0]
          ELSE LET fresh == [np EXCEPT !.media_player = "playing", !.smtc = TRUE,
                                       !.smtc_is_enabled = TRUE,
                                       !.smtc_status = "none",
                                       !.smtc_display = "none",
                                       !.smtc_rate = 0]
                   state == on_playback_state_changed(fresh, np.playback_state)
                   media == on_media_changed(state, np.current_file)
               IN now_playing' =
                     [media EXCEPT
                         !.smtc_rate = np.playback_rate,
                         !.connected = [sig \in PlayerSignals |->
                                           np.connected[sig] + 1],
                         !.btn_handlers = np.btn_handlers + 1,
                         !.enabled = TRUE]
    /\ \A sig \in PlayerSignals : now_playing'.connected[sig] <= MaxConnections
    /\ NowPlayingFrame

\* disable
np_disable ==
    /\ LET np == [now_playing EXCEPT !.last = "disable"] IN
       IF ~np.enabled
       THEN now_playing' = np
       ELSE now_playing' =
               [np EXCEPT
                   !.media_player = "closed",
                   !.connected = [sig \in PlayerSignals |-> np.connected[sig] - 1],
                   !.btn_handlers = IF np.smtc /\ np.btn_handlers > 0
                                    THEN np.btn_handlers - 1 ELSE np.btn_handlers,
                   !.smtc_is_enabled = FALSE,
                   !.smtc = FALSE,
                   !.smtc_status = "none",
                   !.smtc_display = "none",
                   !.smtc_rate = 0,
                   !.enabled = FALSE]
    /\ NowPlayingFrame

\* The player changes its state and emits the signal; the connected slots run
player_playback_state_changed ==
    /\ \E state \in PlaybackStates \ {now_playing.playback_state} :
          LET np == [now_playing EXCEPT !.playback_state = state,
                                        !.last = "signal"] IN
          now_playing' = IF np.connected["playback_state_changed"] > 0
                         THEN on_playback_state_changed(np, state) ELSE np
    /\ NowPlayingFrame

player_media_changed ==
    /\ \E file \in PlayerFiles \ {now_playing.current_file} :
          LET np == [now_playing EXCEPT !.current_file = file,
                                        !.last = "signal"] IN
          now_playing' = IF np.connected["media_changed"] > 0
                         THEN on_media_changed(np, file) ELSE np
    /\ NowPlayingFrame

player_playback_rate_changed ==
    /\ \E rate \in PlaybackRates \ {now_playing.playback_rate} :
          LET np == [now_playing EXCEPT !.playback_rate = rate,
                                        !.last = "signal"] IN
          now_playing' = IF np.connected["playback_rate_changed"] > 0
                         THEN on_playback_rate_changed(np, rate) ELSE np
    /\ NowPlayingFrame

NowPlayingInit ==
    /\ n_inputs = 0
    /\ InitUi /\ InitWorker /\ InitPlugins
    /\ InitCv /\ InitDv /\ InitMg /\ InitUv /\ InitExt

NowPlayingNext ==
    \/ np_enable
    \/ np_disable
    \/ player_playback_state_changed
    \/ player_media_changed
    \/ player_playback_rate_changed

NowPlayingSpec == NowPlayingInit /\ [][NowPlayingNext]_vars

\* The fields of the service and of the system media controls
ServiceState(np) ==
    <<np.enabled, np.smtc, np.smtc_is_enabled, np.smtc_status, np.smtc_display,
      np.smtc_rate, np.btn_handlers, np.media_player, np.connected>>

SignalsMatchEnabled(np) ==
    /\ \A sig \in PlayerSignals : np.connected[sig] = IF np.enabled THEN 1 ELSE 0
    /\ np.btn_handlers = IF np.enabled THEN 1 ELSE 0

\* C30: enable and disable are idempotent: after any sequence of them each
\* signal of the player is connected once when the service is enabled and
\* not at all when it is disabled; disable on a service that is not enabled
\* changes nothing; an enable whose initialisation of the media controls
\* fails leaves the service disabled.
C30_EnableDisableIdempotent ==
    /\ SignalsMatchEnabled(now_playing)
    /\ [][/\ SignalsMatchEnabled(now_playing')
          /\ (now_playing'.last = "disable" /\ ~now_playing.enabled)
                => ServiceState(now_playing') = ServiceState(now_playing)
          /\ (now_playing'.last = "enable" /\ now_playing.enabled)
                => ServiceState(now_playing') = ServiceState(now_playing)
          /\ (now_playing'.last = "enable" /\ ~now_playing'.smtc_is_enabled)
                => ~now_playing'.enabled]_vars

\* enable was called on an enabled service whose player is playing a file
C30_Witness ==
    /\ now_playing.last = "enable"
    /\ now_playing.enabled
    /\ now_playing.smtc_status = "PLAYING"
    /\ now_playing.smtc_display = "f1"
    /\ now_playing.media_player = "playing"

====
